---- MODULE Spec2Model ----
(***************************************************************************)
(* A model of postrust's request-to-SQL pipeline and executor envelope.    *)
(*                                                                         *)
(* SQL text is a sequence of symbols.  A symbol is one character ("$", a   *)
(* decimal digit, the double quote, a letter of a client-supplied string)  *)
(* or one fixed chunk of SQL the builder pushes as a literal (such as      *)
(* "SELECT " or " = ").  No fixed chunk contains "$", a digit or a double  *)
(* quote, so the character-level scans of the code (renumber_params,       *)
(* escape_ident) act on the model's symbols exactly as on the characters.  *)
(***************************************************************************)
EXTENDS Integers, Sequences, FiniteSets, TLC

VARIABLES
    fa, fb, fc,          \* three SqlFragment values
    ab, bc, ab_c, a_bc,  \* results of SqlFragment::append on them (None before)
    db_plan,             \* the DbActionPlan handed to build_db_query
    auth_role,           \* the role of the authenticated caller
    main_query,          \* the MainQuery built from db_plan (None before)
    api_request,         \* the parsed ApiRequest being planned
    plan_result,         \* the Result of create_action_plan (None before)
    pool,                \* the idle connections of the pool
    conns,               \* per connection: the statements it was sent, its session state
    reqs,                \* per request in execute_plan: its caller, its position, its outcome
    db_table,            \* the committed rows of the table the requests write to
    http_request,        \* the HTTP request handed to parse_request
    parse_result,        \* the Result of parse_request (None before)
    schema_cache,        \* the SchemaCache value behind AppState's RwLock
    cache_lock,          \* the RwLock: its read guards, its write guard, its queued writers
    handlers,            \* per request in process_request: its position, what it read
    reloads,             \* per reload_schema task: its position, the cache it loaded
    running,             \* NotifyBroker.running
    channels,            \* NotifyBroker.channels: per channel name, what its Sender was sent
    tasks,               \* the listener tasks spawned by start and listen_channel
    calls,               \* per caller of the broker: the call it is in, its position, its result
    subscribers,         \* the subscriber streams: their channel, their cursor, what they yielded
    emitted,             \* the notifications PostgreSQL emitted, in order
    stopped,             \* whether stop has returned and start has not marked running since
    gql                  \* a request to handle_graphql or process_request: its position, its role

fragVars == <<fa, fb, fc, ab, bc, ab_c, a_bc>>

buildVars == <<db_plan, auth_role, main_query>>

planVars == <<api_request, plan_result>>

execVars == <<pool, conns, reqs, db_table>>

parseVars == <<http_request, parse_result>>

cacheVars == <<schema_cache, cache_lock, handlers, reloads>>

brokerVars == <<running, channels, tasks, calls, subscribers, emitted, stopped>>

gqlVars == <<gql>>

vars == <<fa, fb, fc, ab, bc, ab_c, a_bc, db_plan, auth_role, main_query,
          api_request, plan_result, pool, conns, reqs, db_table,
          http_request, parse_result, schema_cache, cache_lock, handlers, reloads,
         running, channels, tasks, calls, subscribers, emitted, stopped, gql>>

\* Option<T>: <<>> is None, <<x>> is Some(x).
None == <<>>
Some(x) == <<x>>
Unwrap(o) == o[1]

(***************************************************************************)
(* Characters and numbers                                                  *)
(***************************************************************************)

Digits == <<"0", "1", "2", "3", "4", "5", "6", "7", "8", "9">>

IsDigit(c) == \E d \in 1..10 : Digits[d] = c

DigitVal(c) == (CHOOSE d \in 1..10 : Digits[d] = c) - 1

\* usize's Display: the decimal digits of n, no leading zero.
RECURSIVE usize_to_string(_)
usize_to_string(n) ==
    IF n < 10 THEN <<Digits[n + 1]>>
    ELSE usize_to_string(n \div 10) \o <<Digits[(n % 10) + 1]>>

\* str::parse::<usize> on a run of ASCII digits: Err (here -1) on the empty
\* string.  The model's digit runs are far too short to overflow usize.
RECURSIVE parse_digits(_, _)
parse_digits(s, acc) ==
    IF s = <<>> THEN acc
    ELSE parse_digits(Tail(s), acc * 10 + DigitVal(Head(s)))

parse_usize(s) == IF s = <<>> THEN -1 ELSE parse_digits(s, 0)

(***************************************************************************)
(* postrust-sql: SqlFragment                                               *)
(***************************************************************************)

SqlFragment_new == [sql |-> <<>>, params |-> <<>>]

raw(s) == [sql |-> s, params |-> <<>>]

push(f, s) == [f EXCEPT !.sql = @ \o s]

push_param_off_by_one(f, v) ==
    [sql |-> f.sql \o <<"$">> \o usize_to_string(Len(f.params)),
     params |-> Append(f.params, v)]

push_param(f, v) ==
    [sql |-> f.sql \o <<"$">> \o usize_to_string(Len(f.params) + 1),
     params |-> Append(f.params, v)]

\* The index of the last character of the run of digits that starts at i
\* (i - 1 when sql[i] is not a digit): the inner `while let Some(&next)` loop.
DigitRunEnd(sql, i) ==
    CHOOSE j \in (i - 1)..Len(sql) :
        /\ \A k \in i..j : IsDigit(sql[k])
        /\ (j = Len(sql) \/ ~IsDigit(sql[j + 1]))

RECURSIVE renumber_from(_, _, _)
renumber_from(sql, i, offset) ==
    IF i > Len(sql) THEN <<>>
    ELSE IF sql[i] = "$"
         THEN LET j == DigitRunEnd(sql, i + 1)
                  num_str == SubSeq(sql, i + 1, j)
                  num == parse_usize(num_str)
              IN  IF num >= 0
                  THEN <<"$">> \o usize_to_string(num + offset)
                           \o renumber_from(sql, j + 1, offset)
                  ELSE <<"$">> \o num_str \o renumber_from(sql, j + 1, offset)
         ELSE <<sql[i]>> \o renumber_from(sql, i + 1, offset)

renumber_params(sql, offset) == renumber_from(sql, 1, offset)

append(f, other) ==
    [sql |-> f.sql \o renumber_params(other.sql, Len(f.params)),
     params |-> f.params \o other.params]

is_empty(f) == f.sql = <<>>

RECURSIVE join_from(_, _, _, _)
join_from(sep, frags, result, first) ==
    IF frags = <<>> THEN result
    ELSE LET frag == Head(frags)
         IN  IF is_empty(frag)
             THEN join_from(sep, Tail(frags), result, first)
             ELSE join_from(sep, Tail(frags),
                            append(IF first THEN result ELSE push(result, sep), frag),
                            FALSE)

join(sep, frags) == join_from(sep, frags, SqlFragment_new, TRUE)

parens(f) == [f EXCEPT !.sql = <<"(">> \o @ \o <<")">>]

(***************************************************************************)
(* postrust-sql: identifiers                                               *)
(***************************************************************************)

RECURSIVE double_quotes(_)
double_quotes(name) ==
    IF name = <<>> THEN <<>>
    ELSE (IF Head(name) = "\"" THEN <<"\"", "\"">> ELSE <<Head(name)>>)
             \o double_quotes(Tail(name))

escape_ident(name) == <<"\"">> \o double_quotes(name) \o <<"\"">>

from_qi(qi) ==
    IF qi.schema = <<>> THEN escape_ident(qi.name)
    ELSE escape_ident(qi.schema) \o <<".">> \o escape_ident(qi.name)

(***************************************************************************)
(* Reading SQL text the way the database does: a "$" followed by digits is *)
(* a parameter placeholder unless it lies inside a double-quoted           *)
(* identifier.                                                             *)
(***************************************************************************)

QuoteCount(sql) == Cardinality({i \in 1..Len(sql) : sql[i] = "\""})

\* The numbers of the placeholders of sql: the digit runs that follow a "$"
\* outside quoted identifiers.
Placeholders(sql) ==
    {parse_usize(SubSeq(sql, i + 1, DigitRunEnd(sql, i + 1))) :
        i \in {k \in 1..(Len(sql) - 1) :
                  /\ sql[k] = "$"
                  /\ IsDigit(sql[k + 1])
                  /\ QuoteCount(SubSeq(sql, 1, k - 1)) % 2 = 0}}

\* A "$" outside quoted identifiers that no digit follows.
HasBareDollar(sql) ==
    \E i \in 1..Len(sql) :
        /\ sql[i] = "$"
        /\ QuoteCount(SubSeq(sql, 1, i - 1)) % 2 = 0
        /\ (i = Len(sql) \/ ~IsDigit(sql[i + 1]))

\* The fragment invariant of the builder: placeholders are $1..$|params|,
\* every "$" outside identifiers starts a placeholder, and every quoted
\* identifier is closed.
WellFormedFragment(f) ==
    /\ Placeholders(f.sql) = 1..Len(f.params)
    /\ ~HasBareDollar(f.sql)
    /\ QuoteCount(f.sql) % 2 = 0

\* b.sql with every placeholder $k read as above replaced by $(k + offset)
\* and every other character kept.
RECURSIVE shift_placeholders(_, _, _, _)
shift_placeholders(sql, i, quoted, offset) ==
    IF i > Len(sql) THEN <<>>
    ELSE IF sql[i] = "\""
         THEN <<"\"">> \o shift_placeholders(sql, i + 1, ~quoted, offset)
    ELSE IF sql[i] = "$" /\ ~quoted
         THEN LET j == DigitRunEnd(sql, i + 1)
              IN  IF j > i
                  THEN <<"$">>
                          \o usize_to_string(parse_usize(SubSeq(sql, i + 1, j)) + offset)
                          \o shift_placeholders(sql, j + 1, quoted, offset)
                  ELSE <<"$">> \o shift_placeholders(sql, i + 1, quoted, offset)
    ELSE <<sql[i]>> \o shift_placeholders(sql, i + 1, quoted, offset)

(***************************************************************************)
(* postrust-sql: statement builders                                        *)
(***************************************************************************)

\* i64's Display.
i64_to_string(n) ==
    IF n < 0 THEN <<"-">> \o usize_to_string(0 - n) ELSE usize_to_string(n)

\* `for (i, x) in xs.enumerate() { if i > 0 { push(sep) } append(x) }`
RECURSIVE append_each(_, _, _, _)
append_each(result, frags, sep, i) ==
    IF i > Len(frags) THEN result
    ELSE append_each(append(IF i > 1 THEN push(result, sep) ELSE result, frags[i]),
                     frags, sep, i + 1)

\* `for (i, col) in cols.enumerate() { if i > 0 { push(", ") } push(escape_ident(col)) }`
RECURSIVE push_idents(_, _, _)
push_idents(result, names, i) ==
    IF i > Len(names) THEN result
    ELSE push_idents(push(IF i > 1 THEN push(result, <<", ">>) ELSE result,
                          escape_ident(names[i])),
                     names, i + 1)

from_table(qi) == raw(from_qi(qi))

from_table_as(qi, alias) == raw(from_qi(qi) \o <<" AS ">> \o escape_ident(alias))

returning(column) == raw(escape_ident(column))

\* SelectBuilder::build for the parts the query builder sets: columns, from,
\* where_clauses, order_by, limit and offset.
SelectBuilder_build(b) ==
    LET r1 == push(SqlFragment_new, <<"SELECT ">>)
        r2 == IF b.columns = <<>> THEN push(r1, <<"*">>)
              ELSE append_each(r1, b.columns, <<", ">>, 1)
        r3 == IF b.from # None THEN append(push(r2, <<" FROM ">>), Unwrap(b.from))
              ELSE r2
        r4 == IF b.where_clauses # <<>>
              THEN append_each(push(r3, <<" WHERE ">>), b.where_clauses, <<" AND ">>, 1)
              ELSE r3
        r5 == IF b.order_by # <<>>
              THEN append_each(push(r4, <<" ORDER BY ">>), b.order_by, <<", ">>, 1)
              ELSE r4
        r6 == IF b.limit # None
              THEN push(push(r5, <<" LIMIT ">>), i64_to_string(Unwrap(b.limit)))
              ELSE r5
    IN  IF b.offset # None
        THEN push(push(r6, <<" OFFSET ">>), i64_to_string(Unwrap(b.offset)))
        ELSE r6

\* `for (i, (col, val)) in set.enumerate() { ... escape_ident(col) " = " append(val) }`
RECURSIVE push_set_cols(_, _, _)
push_set_cols(result, set, i) ==
    IF i > Len(set) THEN result
    ELSE push_set_cols(
             append(push(push(IF i > 1 THEN push(result, <<", ">>) ELSE result,
                              escape_ident(set[i][1])),
                         <<" = ">>),
                    set[i][2]),
             set, i + 1)

\* InsertBuilder::build; the query builder never adds a row of values.
InsertBuilder_build(b) ==
    LET r1 == append(push(SqlFragment_new, <<"INSERT INTO ">>), b.table)
        r2 == IF b.columns # <<>>
              THEN push(push_idents(push(r1, <<" (">>), b.columns, 1), <<")">>)
              ELSE r1
        r3 == push(r2, <<" DEFAULT VALUES">>)
        r4 == IF b.on_conflict = None THEN r3
              ELSE IF Unwrap(b.on_conflict).tag = "DoNothing"
                   THEN push(r3, <<" ON CONFLICT DO NOTHING">>)
                   ELSE push_set_cols(
                            push(push_idents(push(r3, <<" ON CONFLICT (">>),
                                             Unwrap(b.on_conflict).columns, 1),
                                 <<") DO UPDATE SET ">>),
                            Unwrap(b.on_conflict).set, 1)
    IN  IF b.returning # <<>>
        THEN append_each(push(r4, <<" RETURNING ">>), b.returning, <<", ">>, 1)
        ELSE r4

\* UpdateBuilder::build; the query builder never adds a SET clause to it.
UpdateBuilder_build(b) ==
    append(push(SqlFragment_new, <<"UPDATE ">>), b.table)

DeleteBuilder_build(b) ==
    LET r1 == append(push(SqlFragment_new, <<"DELETE FROM ">>), b.table)
        r2 == IF b.where_clauses # <<>>
              THEN append_each(push(r1, <<" WHERE ">>), b.where_clauses, <<" AND ">>, 1)
              ELSE r1
    IN  IF b.returning # <<>>
        THEN append_each(push(r2, <<" RETURNING ">>), b.returning, <<", ">>, 1)
        ELSE r2

\* OrderExpr::into_fragment
OrderExpr_into_fragment(o) ==
    LET f1 == raw(escape_ident(o.column))
        f2 == IF o.direction = None THEN f1
              ELSE push(f1, IF Unwrap(o.direction) = "Asc" THEN <<" ASC">> ELSE <<" DESC">>)
    IN  IF o.nulls = None THEN f2
        ELSE push(f2, IF Unwrap(o.nulls) = "First" THEN <<" NULLS FIRST">>
                      ELSE <<" NULLS LAST">>)

(***************************************************************************)
(* postrust-core: QueryBuilder                                             *)
(***************************************************************************)

AggregateFunction_to_sql(agg) ==
    CASE agg = "Sum" -> <<"SUM">>
      [] agg = "Avg" -> <<"AVG">>
      [] agg = "Max" -> <<"MAX">>
      [] agg = "Min" -> <<"MIN">>
      [] agg = "Count" -> <<"COUNT">>

SimpleOperator_to_sql(op) ==
    CASE op = "NotEqual" -> <<"<>">>
      [] op = "Contains" -> <<"@>">>
      [] op = "Overlap" -> <<"&&">>

QuantOperator_to_sql(op) ==
    CASE op = "Equal" -> <<"=">>
      [] op = "GreaterThan" -> <<">">>
      [] op = "Like" -> <<"LIKE">>

IsValue_to_sql(v) ==
    CASE v = "Null" -> <<"NULL">>
      [] v = "True" -> <<"TRUE">>
      [] v = "False" -> <<"FALSE">>
      [] v = "Unknown" -> <<"UNKNOWN">>

FtsOperator_to_function(op) ==
    CASE op = "Fts" -> <<"to_tsquery">>
      [] op = "Plain" -> <<"plainto_tsquery">>
      [] op = "Phrase" -> <<"phraseto_tsquery">>
      [] op = "Websearch" -> <<"websearch_to_tsquery">>

build_select_field(field) ==
    LET f1 == IF field.aggregate # None
              THEN push(push(SqlFragment_new, AggregateFunction_to_sql(Unwrap(field.aggregate))),
                        <<"(">>)
              ELSE SqlFragment_new
        f2 == push(f1, escape_ident(field.field.name))
        f3 == IF field.aggregate # None THEN push(f2, <<")">>) ELSE f2
        f4 == IF field.cast # None THEN push(push(f3, <<"::">>), Unwrap(field.cast)) ELSE f3
    IN  IF field.alias # None
        THEN push(push(f4, <<" AS ">>), escape_ident(Unwrap(field.alias)))
        ELSE f4

\* `for (i, v) in values.enumerate() { if i > 0 { push(", ") } push_param(v) }`
RECURSIVE push_params(_, _, _)
push_params(frag, values, i) ==
    IF i > Len(values) THEN frag
    ELSE push_params(push_param(IF i > 1 THEN push(frag, <<", ">>) ELSE frag, values[i]),
                     values, i + 1)

build_filter(filter) ==
    LET f1 == push(SqlFragment_new, escape_ident(filter.field.name))
        f2 == IF filter.op_expr.negated THEN push(f1, <<" NOT">>) ELSE f1
        o  == filter.op_expr.operation
    IN  CASE o.tag = "Simple" ->
                push_param(push(push(push(f2, <<" ">>), SimpleOperator_to_sql(o.op)), <<" ">>),
                           o.value)
          [] o.tag = "Quant" ->
                LET g == push(push(push(f2, <<" ">>), QuantOperator_to_sql(o.op)), <<" ">>)
                IN  IF o.quantifier # None
                    THEN push(push_param(push(g, IF Unwrap(o.quantifier) = "Any"
                                                 THEN <<"ANY(">> ELSE <<"ALL(">>),
                                         o.value),
                              <<")">>)
                    ELSE push_param(g, o.value)
          [] o.tag = "In" ->
                push(push_params(push(f2, <<" IN (">>), o.values, 1), <<")">>)
          [] o.tag = "Is" ->
                push(push(f2, <<" IS ">>), IsValue_to_sql(o.is_val))
          [] o.tag = "IsDistinctFrom" ->
                push_param(push(f2, <<" IS DISTINCT FROM ">>), o.value)
          [] o.tag = "Fts" ->
                LET g == push(push(push(f2, <<" @@ ">>), FtsOperator_to_function(o.op)), <<"(">>)
                    h == IF o.language # None
                         THEN push(push_param(g, Unwrap(o.language)), <<", ">>)
                         ELSE g
                IN  push(push_param(h, o.value), <<")">>)

RECURSIVE build_logic_tree(_)
build_logic_tree(tree) ==
    CASE tree.tag = "Expr" ->
            LET sep == IF tree.op = "And" THEN <<" AND ">> ELSE <<" OR ">>
                child_frags == [i \in 1..Len(tree.children) |->
                                   build_logic_tree(tree.children[i])]
                combined == parens(join(sep, child_frags))
            IN  IF tree.negated THEN append(raw(<<"NOT ">>), combined) ELSE combined
      [] tree.tag = "Stmt" -> build_filter(tree.filter)
      [] tree.tag = "NullEmbed" ->
            push(push(SqlFragment_new, escape_ident(tree.field_name)),
                 IF tree.negated THEN <<" IS NOT NULL">> ELSE <<" IS NULL">>)

build_order_term(term) ==
    [column |-> term.field.name, direction |-> term.direction, nulls |-> term.nulls]

build_read_plan(plan) ==
    SelectBuilder_build(
        [from |-> Some(IF plan.from_alias # None
                       THEN from_table_as(plan.from, Unwrap(plan.from_alias))
                       ELSE from_table(plan.from)),
         columns |-> [i \in 1..Len(plan.select) |-> build_select_field(plan.select[i])],
         where_clauses |-> [i \in 1..Len(plan.where_clauses) |->
                               build_logic_tree(plan.where_clauses[i])],
         order_by |-> [i \in 1..Len(plan.order) |->
                          OrderExpr_into_fragment(build_order_term(plan.order[i]))],
         limit |-> plan.range.limit,
         offset |-> IF plan.range.offset > 0 THEN Some(plan.range.offset) ELSE None])

build_read(tree) == build_read_plan(tree.root)

\* The SET list of an UPDATE with a body: every column reads its value out
\* of the body, which is bound once more for each column.
RECURSIVE push_update_cols(_, _, _, _)
push_update_cols(frag, columns, body, i) ==
    IF i > Len(columns) THEN frag
    ELSE LET col == columns[i]
             f1 == IF i > 1 THEN push(frag, <<", ">>) ELSE frag
             f2 == push(push(f1, escape_ident(col.name)), <<" = (">>)
             f3 == push(push_param(f2, body), <<"::json->>">>)
             f4 == push(push_param(f3, col.name), <<")::">>)
         IN  push_update_cols(push(f4, col.ir_type), columns, body, i + 1)

build_mutate(plan) ==
    CASE plan.tag = "Insert" ->
            IF plan.body # None
            THEN push(push_param(push(push(push(SqlFragment_new,
                                               <<"SELECT * FROM json_populate_recordset(NULL::">>),
                                          from_qi(plan.target)),
                                     <<", ">>),
                                 Unwrap(plan.body)),
                      <<"::json)">>)
            ELSE InsertBuilder_build(
                     [table |-> raw(from_qi(plan.target)),
                      columns |-> [i \in 1..Len(plan.columns) |-> plan.columns[i].name],
                      on_conflict |->
                          IF plan.on_conflict = None THEN None
                          ELSE IF Unwrap(plan.on_conflict)[1] = "IgnoreDuplicates"
                               THEN Some([tag |-> "DoNothing"])
                               ELSE Some([tag |-> "DoUpdate",
                                          columns |-> Unwrap(plan.on_conflict)[2],
                                          set |-> [i \in 1..Len(plan.columns) |->
                                                      <<plan.columns[i].name,
                                                        push(push(SqlFragment_new, <<"EXCLUDED.">>),
                                                             escape_ident(plan.columns[i].name))>>]]),
                      returning |-> [i \in 1..Len(plan.returning) |->
                                        returning(plan.returning[i])]])
      [] plan.tag = "Update" ->
            IF plan.body # None
            THEN LET f1 == push(push(push(SqlFragment_new, <<"UPDATE ">>),
                                     from_qi(plan.target)),
                                <<" SET ">>)
                     f2 == push_update_cols(f1, plan.columns, Unwrap(plan.body), 1)
                     f3 == IF plan.where_clauses # <<>>
                           THEN append_each(push(f2, <<" WHERE ">>),
                                            [i \in 1..Len(plan.where_clauses) |->
                                                build_logic_tree(plan.where_clauses[i])],
                                            <<" AND ">>, 1)
                           ELSE f2
                 IN  IF plan.returning # <<>>
                     THEN push_idents(push(f3, <<" RETURNING ">>), plan.returning, 1)
                     ELSE f3
            ELSE UpdateBuilder_build([table |-> raw(from_qi(plan.target))])
      [] plan.tag = "Delete" ->
            DeleteBuilder_build(
                [table |-> raw(from_qi(plan.target)),
                 where_clauses |-> [i \in 1..Len(plan.where_clauses) |->
                                       build_logic_tree(plan.where_clauses[i])],
                 returning |-> [i \in 1..Len(plan.returning) |->
                                   returning(plan.returning[i])]])

\* `for (i, (name, value)) in params.enumerate() { ... escape_ident(name) " => " $n }`
RECURSIVE push_named_params(_, _, _)
push_named_params(frag, params, i) ==
    IF i > Len(params) THEN frag
    ELSE push_named_params(
             push_param(push(push(IF i > 1 THEN push(frag, <<", ">>) ELSE frag,
                                  escape_ident(params[i][1])),
                             <<" => ">>),
                        params[i][2]),
             params, i + 1)

build_call(plan) ==
    LET f1 == push(push(push(SqlFragment_new, <<"SELECT * FROM ">>), from_qi(plan.function)),
                   <<"(">>)
        f2 == CASE plan.params.tag = "Named" -> push_named_params(f1, plan.params.params, 1)
                [] plan.params.tag = "Positional" -> push_params(f1, plan.params.values, 1)
                [] plan.params.tag = "SingleObject" -> push_param(f1, plan.params.body)
                [] plan.params.tag = "None" -> f1
    IN  push(f2, <<")">>)

MainQuery_new == [pre_statements |-> <<>>, main |-> SqlFragment_new, read |-> None]

build_db_query(plan, role) ==
    LET query == [MainQuery_new EXCEPT !.pre_statements =
                      IF role # None
                      THEN <<<<"SET LOCAL ROLE ">> \o escape_ident(Unwrap(role))>>
                      ELSE <<>>]
    IN  CASE plan.tag = "Read" -> [query EXCEPT !.main = build_read(plan.read_tree)]
          [] plan.tag = "MutateRead" ->
                [query EXCEPT !.main = build_mutate(plan.mutate),
                              !.read = IF plan.read # None
                                       THEN Some(build_read(Unwrap(plan.read))) ELSE None]
          [] plan.tag = "Call" ->
                [query EXCEPT !.main = build_call(plan.call),
                              !.read = IF plan.read # None
                                       THEN Some(build_read(Unwrap(plan.read))) ELSE None]

has_main(query) == ~is_empty(query.main)

(***************************************************************************)
(* postrust-core: the planner                                              *)
(***************************************************************************)

\* Result<T, Error>
Ok(x) == [ok |-> TRUE, value |-> x]
Err(e) == [ok |-> FALSE, error |-> e]

\* Table::get_column
get_column(table, name) ==
    LET hits == {i \in 1..Len(table.columns) : table.columns[i].name = name}
    IN  IF hits = {} THEN None ELSE Some(table.columns[CHOOSE i \in hits : TRUE])

column_names(table) == [i \in 1..Len(table.columns) |-> table.columns[i].name]

qualified_identifier(t) == [schema |-> t.schema, name |-> t.name]

\* SchemaCache::require_table
require_table(cache, qi) ==
    LET hits == {t \in cache.tables : qualified_identifier(t) = qi}
    IN  IF hits = {} THEN Err("TableNotFound") ELSE Ok(CHOOSE t \in hits : TRUE)

\* SchemaCache::get_routines
get_routines(cache, qi) ==
    LET hits == {i \in 1..Len(cache.routines) : qualified_identifier(cache.routines[i]) = qi}
    IN  IF hits = {} THEN None
        ELSE Some([k \in 1..Cardinality(hits) |->
                      cache.routines[CHOOSE i \in hits :
                          Cardinality({j \in hits : j < i}) = k - 1]])

CoercibleField_simple(name, pg_type) == [name |-> name, ir_type |-> pg_type]

from_field(field, pg_type) == [name |-> field.name, ir_type |-> pg_type]

from_filter(filter, pg_type) ==
    [field |-> from_field(filter.field, pg_type), op_expr |-> filter.op_expr]

\* The closure both where-clause builders use: the column's type, or "text"
\* for a name that is not a column.
type_resolver(table, name) ==
    IF get_column(table, name) # None THEN Unwrap(get_column(table, name)).data_type
    ELSE <<"text">>

RECURSIVE from_logic_tree(_, _)
from_logic_tree(tree, table) ==
    IF tree.tag = "Expr"
    THEN [tag |-> "Expr", negated |-> tree.negated, op |-> tree.op,
          children |-> [i \in 1..Len(tree.children) |->
                           from_logic_tree(tree.children[i], table)]]
    ELSE [tag |-> "Stmt",
          filter |-> from_filter(tree.filter, type_resolver(table, tree.filter.field.name))]

\* The SelectItem::Field items of a select list; relations are handled
\* separately.
field_items(items) == SelectSeq(items, LAMBDA item : item.tag = "Field")

\* The SelectItem::Relation and SelectItem::SpreadRelation items.
relation_items(items) == SelectSeq(items, LAMBDA item : item.tag # "Field")

\* SchemaCache::get_relationships
get_relationships(cache, qi, schema) ==
    IF <<qi, schema>> \in DOMAIN cache.relationships
    THEN Some(cache.relationships[<<qi, schema>>]) ELSE None

\* SchemaCache::find_relationship: the first relationship of the table
\* whose foreign table has the name.
find_relationship(cache, from, to_name, schema) ==
    LET rels == get_relationships(cache, from, schema)
        hits == {i \in 1..Len(Unwrap(rels)) : Unwrap(rels)[i].foreign_table.name = to_name}
    IN  IF rels = None \/ hits = {} THEN None
        ELSE Some(Unwrap(rels)[CHOOSE i \in hits : \A j \in hits : i <= j])

\* build_relation_selects; the hint of an item is not looked at.
build_relation_selects(items, table, cache) ==
    LET rels == relation_items(items)
    IN  IF \E i \in 1..Len(rels) :
               find_relationship(cache, qualified_identifier(table), rels[i].relation,
                                 table.schema) = None
        THEN Err("RelationshipNotFound")
        ELSE Ok([i \in 1..Len(rels) |->
                    [name |-> rels[i].relation,
                     agg_alias |-> IF rels[i].tag = "SpreadRelation"
                                   THEN <<"pgrst_spread_">> \o rels[i].relation
                                   ELSE IF rels[i].alias # None THEN Unwrap(rels[i].alias)
                                   ELSE <<"pgrst_">> \o rels[i].relation,
                     join_type |-> IF rels[i].join_type # None THEN Unwrap(rels[i].join_type)
                                   ELSE "Left",
                     is_spread |-> rels[i].tag = "SpreadRelation"]])

build_select_fields(items, table) ==
    IF items = <<>>
    THEN Ok([i \in 1..Len(table.columns) |->
                [field |-> CoercibleField_simple(table.columns[i].name,
                                                 table.columns[i].data_type),
                 aggregate |-> None, cast |-> None, alias |-> None]])
    ELSE LET fields == field_items(items)
         IN  IF \E i \in 1..Len(fields) : get_column(table, fields[i].field.name) = None
             THEN Err("ColumnNotFound")
             ELSE Ok([i \in 1..Len(fields) |->
                         [field |-> from_field(fields[i].field,
                                        Unwrap(get_column(table, fields[i].field.name)).data_type),
                          aggregate |-> fields[i].aggregate, cast |-> fields[i].cast,
                          alias |-> fields[i].alias]])

\* The rows of `pairs` whose embed path is empty, in order.
RECURSIVE root_entries(_)
root_entries(pairs) ==
    IF pairs = <<>> THEN <<>>
    ELSE (IF Head(pairs)[1] = <<>> THEN <<Head(pairs)[2]>> ELSE <<>>)
             \o root_entries(Tail(pairs))

RECURSIVE flatten(_)
flatten(seqs) == IF seqs = <<>> THEN <<>> ELSE Head(seqs) \o flatten(Tail(seqs))

build_where_clauses(request, table) ==
    LET roots == request.query_params.filters_root
        trees == root_entries(request.query_params.logic)
    IN  Ok([i \in 1..Len(roots) |->
               [tag |-> "Stmt",
                filter |-> from_filter(roots[i], type_resolver(table, roots[i].field.name))]]
           \o [i \in 1..Len(trees) |-> from_logic_tree(trees[i], table)])

build_order_terms(request, table) ==
    LET terms == flatten(root_entries(request.query_params.order))
    IN  Ok([i \in 1..Len(terms) |->
               [field |-> from_field(terms[i].field, type_resolver(table, terms[i].field.name)),
                direction |-> terms[i].direction, nulls |-> terms[i].nulls]])

ReadPlan_from_request(request, table, cache) ==
    LET select == build_select_fields(request.query_params.select, table)
        where_clauses == build_where_clauses(request, table)
        order == build_order_terms(request, table)
        rel_select == build_relation_selects(request.query_params.select, table, cache)
    IN  IF ~select.ok THEN select
        ELSE IF ~rel_select.ok THEN rel_select
        ELSE Ok([from |-> qualified_identifier(table), from_alias |-> None,
                 select |-> select.value, where_clauses |-> where_clauses.value,
                 order |-> order.value, range |-> request.top_level_range,
                 rel_select |-> rel_select.value])

for_mutation(request, table, cache) ==
    LET plan == ReadPlan_from_request(request, table, cache)
    IN  IF ~plan.ok THEN plan
        ELSE Ok([plan.value EXCEPT !.from_alias = Some(<<"pgrst_mutation_result">>)])

leaf(plan) == [root |-> plan]

\* get_payload_columns; `keys` is the payload's key set in the order the
\* HashSet happens to iterate it.
get_payload_columns(request, table, keys) ==
    IF request.payload = None
           \/ Unwrap(request.payload).tag \notin {"ProcessedJson", "ProcessedUrlEncoded"}
    THEN Ok(<<>>)
    ELSE IF \E i \in 1..Len(keys) : get_column(table, keys[i]) = None
         THEN Err("UnknownColumn")
         ELSE Ok([i \in 1..Len(keys) |->
                     CoercibleField_simple(keys[i],
                                           Unwrap(get_column(table, keys[i])).data_type)])

get_body_bytes(request) ==
    IF request.payload = None THEN Ok(None) ELSE Ok(Some(Unwrap(request.payload).raw))

needs_body(representation) == representation = "Full"

get_returning_columns(request, table) ==
    IF needs_body(request.preferences.representation) THEN column_names(table)
    ELSE table.pk_cols

build_mutation_where(request, table) ==
    LET roots == request.query_params.filters_root
    IN  Ok([i \in 1..Len(roots) |->
               [tag |-> "Stmt",
                filter |-> from_filter(roots[i], type_resolver(table, roots[i].field.name))]])

create_insert(request, table, qi, keys) ==
    LET columns == get_payload_columns(request, table, keys)
    IN  IF ~columns.ok THEN columns
        ELSE Ok([tag |-> "Insert", target |-> qi, columns |-> columns.value,
                 body |-> get_body_bytes(request).value,
                 on_conflict |->
                     IF request.query_params.on_conflict = None THEN None
                     ELSE Some(<<IF request.preferences.resolution # None
                                 THEN Unwrap(request.preferences.resolution)
                                 ELSE "MergeDuplicates",
                                 Unwrap(request.query_params.on_conflict)>>),
                 where_clauses |-> <<>>,
                 returning |-> get_returning_columns(request, table)])

create_update(request, table, qi, keys) ==
    LET columns == get_payload_columns(request, table, keys)
    IN  IF ~columns.ok THEN columns
        ELSE Ok([tag |-> "Update", target |-> qi, columns |-> columns.value,
                 body |-> get_body_bytes(request).value,
                 where_clauses |-> build_mutation_where(request, table).value,
                 returning |-> get_returning_columns(request, table)])

create_delete(request, table, qi) ==
    Ok([tag |-> "Delete", target |-> qi,
        where_clauses |-> build_mutation_where(request, table).value,
        returning |-> get_returning_columns(request, table)])

create_upsert(request, table, qi, keys) ==
    LET columns == get_payload_columns(request, table, keys)
    IN  IF ~columns.ok THEN columns
        ELSE Ok([tag |-> "Insert", target |-> qi, columns |-> columns.value,
                 body |-> get_body_bytes(request).value,
                 on_conflict |-> Some(<<"MergeDuplicates", table.pk_cols>>),
                 where_clauses |-> <<>>,
                 returning |-> get_returning_columns(request, table)])

MutatePlan_from_request(request, table, mutation, keys) ==
    CASE mutation = "Create" -> create_insert(request, table, qualified_identifier(table), keys)
      [] mutation = "Update" -> create_update(request, table, qualified_identifier(table), keys)
      [] mutation = "Delete" -> create_delete(request, table, qualified_identifier(table))
      [] mutation = "SingleUpsert" ->
            create_upsert(request, table, qualified_identifier(table), keys)

extract_call_params(request) ==
    IF request.payload # None
    THEN LET payload == Unwrap(request.payload)
         IN  IF payload.tag = "ProcessedJson"
             THEN [tag |-> "Named", params |-> payload.object]
             ELSE [tag |-> "SingleObject", body |-> payload.raw]
    ELSE IF request.query_params.params # <<>>
         THEN [tag |-> "Named", params |-> request.query_params.params]
         ELSE [tag |-> "None"]

CallPlan_from_request(request, routine) ==
    Ok([function |-> qualified_identifier(routine), params |-> extract_call_params(request),
        volatility |-> routine.volatility])

create_db_plan(request, action, cache, keys) ==
    CASE action.tag = "RelationRead" ->
            LET table == require_table(cache, action.qi)
                read_plan == ReadPlan_from_request(request, table.value, cache)
            IN  IF ~table.ok THEN table
                ELSE IF ~read_plan.ok THEN read_plan
                ELSE Ok([tag |-> "Read", read_tree |-> leaf(read_plan.value)])
      [] action.tag = "RelationMut" ->
            LET table == require_table(cache, action.qi)
                mutate_plan == MutatePlan_from_request(request, table.value, action.mutation, keys)
                read_plan == for_mutation(request, table.value, cache)
            IN  IF ~table.ok THEN table
                ELSE IF ~mutate_plan.ok THEN mutate_plan
                ELSE IF needs_body(request.preferences.representation)
                     THEN IF ~read_plan.ok THEN read_plan
                          ELSE Ok([tag |-> "MutateRead", mutate |-> mutate_plan.value,
                                   read |-> Some(leaf(read_plan.value))])
                     ELSE Ok([tag |-> "MutateRead", mutate |-> mutate_plan.value,
                              read |-> None])
      [] action.tag = "Routine" ->
            LET routines == get_routines(cache, action.qi)
            IN  IF routines = None \/ Unwrap(routines) = <<>> THEN Err("FunctionNotFound")
                ELSE LET call_plan == CallPlan_from_request(request, Unwrap(routines)[1])
                     IN  Ok([tag |-> "Call", call |-> call_plan.value, read |-> None])

(***************************************************************************)
(* Fragment algebra: three fragments, appended in both groupings           *)
(***************************************************************************)

MaxSqlLen == 4
MaxSideLen == 2

FragAlphabet == {"$", "1", "\"", "x"}

SqlStrings(n) == UNION {[1..k -> FragAlphabet] : k \in 0..n}

ParamsOf(tag, n) == [i \in 1..n |-> <<tag, i>>]

\* The well-formed fragments over the alphabet whose sql has at most n symbols.
Fragments(n, tag) ==
    {f \in {[sql |-> s, params |-> ParamsOf(tag, k)] : s \in SqlStrings(n), k \in 0..1} :
        WellFormedFragment(f)}

BuildIdle == db_plan = None /\ auth_role = None /\ main_query = None

PlanIdle == api_request = None /\ plan_result = None

ExecIdle == pool = {} /\ conns = <<>> /\ reqs = <<>> /\ db_table = {}

ParseIdle == http_request = None /\ parse_result = None

CacheIdle == schema_cache = None /\ cache_lock = None /\ handlers = <<>> /\ reloads = <<>>

BrokerIdle ==
    /\ running = FALSE /\ channels = <<>> /\ tasks = <<>> /\ calls = <<>>
    /\ subscribers = <<>> /\ emitted = <<>> /\ stopped = FALSE

GqlIdle == gql = None

FragIdle ==
    /\ fa = SqlFragment_new /\ fb = SqlFragment_new /\ fc = SqlFragment_new
    /\ ab = None /\ bc = None /\ ab_c = None /\ a_bc = None

InitFrag ==
    /\ fa \in Fragments(MaxSideLen, "a")
    /\ fb \in Fragments(MaxSqlLen, "b")
    /\ fc \in Fragments(MaxSideLen - 1, "c")
    /\ ab = None /\ bc = None /\ ab_c = None /\ a_bc = None
    /\ BuildIdle /\ PlanIdle /\ ExecIdle /\ ParseIdle /\ CacheIdle /\ BrokerIdle /\ GqlIdle

AppendAB ==
    /\ ab = None
    /\ ab' = Some(append(fa, fb))
    /\ UNCHANGED <<fa, fb, fc, bc, ab_c, a_bc>>
    /\ UNCHANGED <<buildVars, planVars, execVars, parseVars, cacheVars, brokerVars, gqlVars>>

AppendBC ==
    /\ bc = None
    /\ bc' = Some(append(fb, fc))
    /\ UNCHANGED <<fa, fb, fc, ab, ab_c, a_bc>>
    /\ UNCHANGED <<buildVars, planVars, execVars, parseVars, cacheVars, brokerVars, gqlVars>>

AppendAB_C ==
    /\ ab # None /\ ab_c = None
    /\ ab_c' = Some(append(Unwrap(ab), fc))
    /\ UNCHANGED <<fa, fb, fc, ab, bc, a_bc>>
    /\ UNCHANGED <<buildVars, planVars, execVars, parseVars, cacheVars, brokerVars, gqlVars>>

AppendA_BC ==
    /\ bc # None /\ a_bc = None
    /\ a_bc' = Some(append(fa, Unwrap(bc)))
    /\ UNCHANGED <<fa, fb, fc, ab, bc, ab_c>>
    /\ UNCHANGED <<buildVars, planVars, execVars, parseVars, cacheVars, brokerVars, gqlVars>>

NextFrag == AppendAB \/ AppendBC \/ AppendAB_C \/ AppendA_BC

SpecFrag == InitFrag /\ [][NextFrag]_vars

\* C7: a.append(b) yields a.sql followed by b.sql with every placeholder $k
\* replaced by $(k + |a.params|) and every other character of b.sql
\* unchanged, and a.params followed by b.params.
C7_AppendRenumbersOnlyPlaceholders ==
    ab # None =>
        /\ Unwrap(ab).sql
               = fa.sql \o shift_placeholders(fb.sql, 1, FALSE, Len(fa.params))
        /\ Unwrap(ab).params = fa.params \o fb.params

\* C8: fragment append is associative: (a ++ b) ++ c = a ++ (b ++ c).
C8_AppendAssociative ==
    (ab_c # None /\ a_bc # None) => ab_c = a_bc

(***************************************************************************)
(* Building SQL from a plan: build_db_query on every kind of plan, with    *)
(* identifier names that contain "$", digits and double quotes             *)
(***************************************************************************)

MaxIdentLen == 2
MaxClauses == 2
MaxColumns == 2

IdentAlphabet == {"$", "1", "\""}

\* The names under test: every non-empty string over the alphabet.
Idents == UNION {[1..k -> IdentAlphabet] : k \in 1..MaxIdentLen}

\* The i-th of a family of distinct names made from n: n, bn, bbn, ...
NameVariant(n, i) == [j \in 1..(i - 1) |-> "b"] \o n

\* Operand values; they look like placeholders and like identifiers.
ValueA == <<"$", "1">>
ValueB == <<"\"", "v">>
Body == <<"{", "\"", "$", "2", "}">>

Field(n) == [name |-> n, ir_type |-> <<"text">>]

Stmt(n, negated, operation) ==
    [tag |-> "Stmt",
     filter |-> [field |-> Field(n),
                 op_expr |-> [negated |-> negated, operation |-> operation]]]

\* The shapes of WHERE clause the model draws from, over the names made
\* from n; together they use every Operation and every CoercibleLogicTree.
ClauseShapes(n) ==
    { Stmt(n, FALSE, [tag |-> "Quant", op |-> "Equal", quantifier |-> None, value |-> ValueA]),
      [tag |-> "Expr", negated |-> TRUE, op |-> "Or",
       children |-> << Stmt(NameVariant(n, 2), TRUE,
                            [tag |-> "In", values |-> <<ValueA, ValueB>>]),
                       Stmt(n, FALSE, [tag |-> "Fts", op |-> "Plain",
                                       language |-> Some(ValueB), value |-> ValueA]),
                       Stmt(n, TRUE, [tag |-> "Is", is_val |-> "Null"]),
                       Stmt(n, FALSE, [tag |-> "Simple", op |-> "NotEqual", value |-> ValueB]) >>],
      [tag |-> "Expr", negated |-> FALSE, op |-> "And",
       children |-> << Stmt(n, FALSE, [tag |-> "Quant", op |-> "Like",
                                       quantifier |-> Some("Any"), value |-> ValueA]),
                       [tag |-> "NullEmbed", negated |-> TRUE, field_name |-> n],
                       Stmt(n, FALSE, [tag |-> "IsDistinctFrom", value |-> ValueB]),
                       Stmt(n, FALSE, [tag |-> "Fts", op |-> "Fts",
                                       language |-> None, value |-> ValueB]) >>] }

WhereClauses(n) == UNION {[1..k -> ClauseShapes(n)] : k \in 0..MaxClauses}

SelectLists(n) ==
    { <<>>,
      << [field |-> Field(n), aggregate |-> None, cast |-> None, alias |-> None] >>,
      << [field |-> Field(n), aggregate |-> Some("Count"), cast |-> Some(<<"i", "n", "t", "4">>),
          alias |-> Some(NameVariant(n, 2))],
         [field |-> Field(NameVariant(n, 2)), aggregate |-> None, cast |-> None,
          alias |-> None] >> }

OrderLists(n) ==
    { <<>>,
      << [field |-> Field(n), direction |-> Some("Desc"), nulls |-> Some("Last")],
         [field |-> Field(NameVariant(n, 2)), direction |-> None, nulls |-> None] >> }

\* A plain FROM with no pagination, or an aliased FROM with LIMIT and OFFSET.
Paginations(n) ==
    { [from_alias |-> None, range |-> [limit |-> None, offset |-> 0]],
      [from_alias |-> Some(NameVariant(n, 2)), range |-> [limit |-> Some(10), offset |-> 5]] }

Target(n) == [schema |-> <<"p">>, name |-> n]

ReadPlans(n) ==
    { [from |-> Target(n), from_alias |-> pg.from_alias, select |-> sel, where_clauses |-> w,
       order |-> o, range |-> pg.range] :
        pg \in Paginations(n), sel \in SelectLists(n),
        w \in WhereClauses(n), o \in OrderLists(n) }

Columns(n, k) == [i \in 1..k |-> Field(NameVariant(n, i))]

ColumnNames(n, k) == [i \in 1..k |-> NameVariant(n, i)]

\* The read plan that accompanies a mutation which returns its rows.
ReadOf(n, rets) ==
    IF rets = <<>> THEN None
    ELSE Some([root |-> [from |-> Target(n), from_alias |-> Some(<<"pgrst_mutation_result">>),
                         select |-> <<>>, where_clauses |-> <<>>, order |-> <<>>,
                         range |-> [limit |-> None, offset |-> 0]]])

InsertPlans(n) ==
    { [tag |-> "Insert", target |-> Target(n), columns |-> Columns(n, k), body |-> b,
       on_conflict |-> oc, where_clauses |-> <<>>, returning |-> ColumnNames(n, r)] :
        k \in 0..MaxColumns, b \in {None, Some(Body)}, r \in {0, 2},
        oc \in {None, Some(<<"IgnoreDuplicates", ColumnNames(n, 1)>>),
                Some(<<"MergeDuplicates", ColumnNames(n, 2)>>)} }

\* Without a body the builder ignores columns and WHERE clauses.
UpdatePlans(n) ==
    { [tag |-> "Update", target |-> Target(n), columns |-> Columns(n, k), body |-> Some(Body),
       where_clauses |-> w, returning |-> ColumnNames(n, r)] :
        k \in 0..MaxColumns, r \in {0, 2}, w \in WhereClauses(n) }
    \cup { [tag |-> "Update", target |-> Target(n), columns |-> Columns(n, 1), body |-> None,
            where_clauses |-> <<>>, returning |-> <<>>] }

DeletePlans(n) ==
    { [tag |-> "Delete", target |-> Target(n), where_clauses |-> w,
       returning |-> ColumnNames(n, r)] :
        r \in {0, 2}, w \in WhereClauses(n) }

CallPlans(n) ==
    { [function |-> Target(n), params |-> p] :
        p \in { [tag |-> "None"],
                [tag |-> "SingleObject", body |-> Body],
                [tag |-> "Positional", values |-> <<ValueA, ValueB>>],
                [tag |-> "Named", params |-> <<>>],
                [tag |-> "Named",
                 params |-> << <<n, ValueA>>, <<NameVariant(n, 2), ValueB>> >>] } }

DbActionPlans(n) ==
    { [tag |-> "Read", read_tree |-> [root |-> p]] : p \in ReadPlans(n) }
    \cup { [tag |-> "MutateRead", mutate |-> m, read |-> ReadOf(n, m.returning)] :
              m \in InsertPlans(n) \cup UpdatePlans(n) \cup DeletePlans(n) }
    \cup { [tag |-> "Call", call |-> c, read |-> None] : c \in CallPlans(n) }

InitBuild ==
    /\ \E n \in Idents :
          /\ db_plan \in {Some(p) : p \in DbActionPlans(n)}
          /\ auth_role = Some(n)
    /\ main_query = None
    /\ FragIdle /\ PlanIdle /\ ExecIdle /\ ParseIdle /\ CacheIdle /\ BrokerIdle /\ GqlIdle

\* build_query on a read plan
BuildRead ==
    /\ main_query = None /\ db_plan # None
    /\ Unwrap(db_plan).tag = "Read"
    /\ main_query' = Some(build_db_query(Unwrap(db_plan), auth_role))
    /\ UNCHANGED <<fragVars, parseVars, cacheVars, brokerVars, gqlVars, planVars, execVars, db_plan, auth_role>>

\* build_query on a mutation plan
BuildMutate ==
    /\ main_query = None /\ db_plan # None
    /\ Unwrap(db_plan).tag = "MutateRead"
    /\ main_query' = Some(build_db_query(Unwrap(db_plan), auth_role))
    /\ UNCHANGED <<fragVars, parseVars, cacheVars, brokerVars, gqlVars, planVars, execVars, db_plan, auth_role>>

\* build_query on a call plan
BuildCall ==
    /\ main_query = None /\ db_plan # None
    /\ Unwrap(db_plan).tag = "Call"
    /\ main_query' = Some(build_db_query(Unwrap(db_plan), auth_role))
    /\ UNCHANGED <<fragVars, parseVars, cacheVars, brokerVars, gqlVars, planVars, execVars, db_plan, auth_role>>

NextBuild == BuildRead \/ BuildMutate \/ BuildCall

SpecBuild == InitBuild /\ [][NextBuild]_vars

(***************************************************************************)
(* Planning a parsed request against a schema cache, then building its SQL *)
(***************************************************************************)

MaxFilters == 2

ColA == <<"a">>
ColB == <<"b">>
ColZ == <<"z">>   \* not a column of any table

TableT ==
    [schema |-> <<"p">>, name |-> <<"t">>,
     columns |-> << [name |-> ColA, data_type |-> <<"integer">>],
                    [name |-> ColB, data_type |-> <<"text">>] >>,
     pk_cols |-> <<ColA>>]

RoutineF == [schema |-> <<"p">>, name |-> <<"f">>, volatility |-> "Volatile"]

RoutineG == [schema |-> <<"p">>, name |-> <<"g">>, volatility |-> "Stable"]

\* Relationship::ForeignKey from p.t
ForeignKey(foreign_name, constraint_name) ==
    [tag |-> "ForeignKey", table |-> [schema |-> <<"p">>, name |-> <<"t">>],
     foreign_table |-> [schema |-> <<"p">>, name |-> foreign_name],
     constraint_name |-> constraint_name]

\* p.t refers to p.c through two foreign keys and to p.d through one.
Cache ==
    [tables |-> {TableT},
     relationships |->
         [k \in {<<[schema |-> <<"p">>, name |-> <<"t">>], <<"p">>>>} |->
             << ForeignKey(<<"c">>, <<"fk1">>), ForeignKey(<<"d">>, <<"fk3">>),
                ForeignKey(<<"c">>, <<"fk2">>) >>],
     routines |-> <<RoutineF, RoutineG>>]

QiT == [schema |-> <<"p">>, name |-> <<"t">>]
QiU == [schema |-> <<"p">>, name |-> <<"u">>]   \* no such table
QiF == [schema |-> <<"p">>, name |-> <<"f">>]
QiG == [schema |-> <<"p">>, name |-> <<"g">>]

\* The filter `name=eq.<value>` as parse_query_params leaves it.
EqFilter(name) ==
    [field |-> [name |-> name],
     op_expr |-> [negated |-> FALSE,
                  operation |-> [tag |-> "Quant", op |-> "Equal", quantifier |-> None,
                                 value |-> ValueA]]]

RootFilters == UNION {[1..k -> {EqFilter(ColA), EqFilter(ColZ)}] : k \in 0..MaxFilters}

\* No and=/or= parameter, or `or=(a.eq.$1,z.eq.$1)`.
LogicParams ==
    { <<>>,
      << << <<>>, [tag |-> "Expr", negated |-> FALSE, op |-> "Or",
                   children |-> << [tag |-> "Stmt", filter |-> EqFilter(ColA)],
                                   [tag |-> "Stmt", filter |-> EqFilter(ColZ)] >>] >> >> }

\* The select item `name(*)`, or `name!hint(*)`.
RelationItem(name, hint) ==
    [tag |-> "Relation", relation |-> name, alias |-> None, hint |-> hint, join_type |-> None]

\* No select parameter, `select=a::text`, `select=z`, `select=a,c(*)` (two
\* relationships lead to c), `select=d(*),...e(*)` (one leads to d, none to
\* e) or `select=c!fk2(*)`.
SelectParams ==
    { <<>>,
      << [tag |-> "Field", field |-> [name |-> ColA], aggregate |-> None,
          cast |-> Some(<<"t", "e", "x", "t">>), alias |-> None] >>,
      << [tag |-> "Field", field |-> [name |-> ColZ], aggregate |-> None, cast |-> None,
          alias |-> None] >>,
      << [tag |-> "Field", field |-> [name |-> ColA], aggregate |-> None, cast |-> None,
          alias |-> None],
         RelationItem(<<"c">>, None) >>,
      << RelationItem(<<"d">>, None),
         [tag |-> "SpreadRelation", relation |-> <<"e">>, hint |-> None, join_type |-> None] >>,
      << RelationItem(<<"c">>, Some(<<"fk2">>)) >> }

\* No order parameter or `order=z.desc`.
OrderParams ==
    { <<>>,
      << << <<>>, << [field |-> [name |-> ColZ], direction |-> Some("Desc"),
                      nulls |-> None] >> >> >> }

\* No body, or a JSON object with the keys a; a and b; a and z.
Payloads ==
    { None,
      Some([tag |-> "ProcessedJson", raw |-> Body, keys |-> {ColA},
            object |-> << <<ColA, ValueA>> >>]),
      Some([tag |-> "ProcessedJson", raw |-> Body, keys |-> {ColA, ColB},
            object |-> << <<ColA, ValueA>>, <<ColB, ValueB>> >>]),
      Some([tag |-> "ProcessedJson", raw |-> Body, keys |-> {ColA, ColZ},
            object |-> << <<ColA, ValueA>>, <<ColZ, ValueB>> >>]),
      Some([tag |-> "RawJson", raw |-> Body]) }

DbActions ==
    { [tag |-> "RelationRead", qi |-> QiT], [tag |-> "RelationRead", qi |-> QiU],
      [tag |-> "Routine", qi |-> QiF, invoke_method |-> [tag |-> "Inv"]],
      [tag |-> "Routine", qi |-> QiF,
       invoke_method |-> [tag |-> "InvRead", headers_only |-> FALSE]],
      [tag |-> "Routine", qi |-> QiG,
       invoke_method |-> [tag |-> "InvRead", headers_only |-> TRUE]] }
    \cup { [tag |-> "RelationMut", qi |-> QiT, mutation |-> m] :
              m \in {"Create", "Update", "Delete", "SingleUpsert"} }

\* A relation read carries no body and no on_conflict parameter.
ApiRequests ==
    { [action |-> act,
       payload |-> pl,
       query_params |-> [select |-> sel, filters_root |-> fr, logic |-> lg, order |-> ord,
                         on_conflict |-> oc, params |-> <<>>],
       preferences |-> [representation |-> rep, resolution |-> None,
                        transaction |-> "Commit"],
       top_level_range |-> rg] :
        act \in DbActions, pl \in Payloads, sel \in SelectParams, fr \in RootFilters,
        lg \in LogicParams, ord \in OrderParams, oc \in {None, Some(<<ColA>>)},
        rep \in {"None", "Full"}, rg \in {[limit |-> None, offset |-> 0]} }

\* The orders in which a HashSet of keys may be iterated.
KeyOrders(keys) ==
    {o \in [1..Cardinality(keys) -> keys] : \A i, j \in DOMAIN o : i # j => o[i] # o[j]}

PayloadKeys(request) ==
    IF request.payload # None /\ Unwrap(request.payload).tag = "ProcessedJson"
    THEN Unwrap(request.payload).keys ELSE {}

InitPlan ==
    /\ api_request \in {Some(r) : r \in {q \in ApiRequests :
            /\ q.action.tag = "RelationRead" =>
                   (q.payload = None /\ q.query_params.on_conflict = None)
            /\ q.action.tag = "Routine" =>
                   /\ q.query_params.select = <<>> /\ q.query_params.order = <<>>
                   /\ q.query_params.logic = <<>> /\ q.query_params.on_conflict = None
                   /\ q.preferences.representation = "None"}}
    /\ plan_result = None
    /\ db_plan = None /\ main_query = None
    /\ auth_role = Some(<<"r">>)
    /\ FragIdle /\ ExecIdle /\ ParseIdle /\ CacheIdle /\ BrokerIdle /\ GqlIdle

\* The results create_action_plan can give for a request, one for every
\* iteration order of the payload's key set.
PlanResults(request) ==
    {create_db_plan(request, request.action, Cache, keys) :
        keys \in KeyOrders(PayloadKeys(request))}

\* create_action_plan on a relation read; a plan that was made is handed on
\* to build_query.
PlanRead ==
    /\ api_request # None /\ plan_result = None
    /\ Unwrap(api_request).action.tag = "RelationRead"
    /\ \E result \in PlanResults(Unwrap(api_request)) :
          /\ plan_result' = Some(result)
          /\ db_plan' = IF result.ok THEN Some(result.value) ELSE None
    /\ UNCHANGED <<fragVars, parseVars, cacheVars, brokerVars, gqlVars, execVars, api_request, auth_role, main_query>>

\* create_action_plan on a mutation
PlanMutate ==
    /\ api_request # None /\ plan_result = None
    /\ Unwrap(api_request).action.tag = "RelationMut"
    /\ \E result \in PlanResults(Unwrap(api_request)) :
          /\ plan_result' = Some(result)
          /\ db_plan' = IF result.ok THEN Some(result.value) ELSE None
    /\ UNCHANGED <<fragVars, parseVars, cacheVars, brokerVars, gqlVars, execVars, api_request, auth_role, main_query>>

\* create_action_plan on a function call
PlanCall ==
    /\ api_request # None /\ plan_result = None
    /\ Unwrap(api_request).action.tag = "Routine"
    /\ \E result \in PlanResults(Unwrap(api_request)) :
          /\ plan_result' = Some(result)
          /\ db_plan' = IF result.ok THEN Some(result.value) ELSE None
    /\ UNCHANGED <<fragVars, parseVars, cacheVars, brokerVars, gqlVars, execVars, api_request, auth_role, main_query>>

NextPlan == PlanRead \/ PlanMutate \/ PlanCall \/ BuildRead \/ BuildMutate \/ BuildCall

SpecPlan == InitPlan /\ [][NextPlan]_vars

\* C6: for every action plan (read, insert, update, delete, upsert, call)
\* over arbitrary identifier names and values, the placeholder numbers of
\* the built SQL are exactly 1..len(params): each of $1..$len(params) occurs
\* and neither $0 nor a larger number does.  This holds of the main query
\* and of the read query built with it.
C6_PlaceholdersExactlyParams ==
    main_query # None =>
        LET q == Unwrap(main_query)
        IN  /\ Placeholders(q.main.sql) = 1..Len(q.main.params)
            /\ q.read # None =>
                   Placeholders(Unwrap(q.read).sql) = 1..Len(Unwrap(q.read).params)

\* An UPDATE with a body, two columns and two WHERE clauses on a table
\* called $1 has been built, and binds at least six parameters.
C6_Witness ==
    /\ main_query # None
    /\ auth_role = Some(<<"$", "1">>)
    /\ Unwrap(db_plan).tag = "MutateRead"
    /\ Unwrap(db_plan).mutate.tag = "Update"
    /\ Unwrap(db_plan).mutate.body # None
    /\ Len(Unwrap(db_plan).mutate.columns) = 2
    /\ Len(Unwrap(db_plan).mutate.where_clauses) = 2
    /\ Len(Unwrap(main_query).main.params) >= 6

\* The characters of the client-supplied strings of the plans above that are
\* neither "$", a digit nor the double quote.
ClientLetters == {"b", "v", "i", "n", "t", "{", "}"}

Unquoted(sql) ==
    {i \in 1..Len(sql) : sql[i] # "\"" /\ QuoteCount(SubSeq(sql, 1, i - 1)) % 2 = 0}

\* C9: in the SQL built from any request, a client-supplied string appears
\* only inside an escape_ident-quoted identifier or as a bound parameter:
\* outside quoted identifiers the text holds no character of a client
\* string, and every "$" there starts the placeholder of a bound parameter.
C9_ClientTextQuotedOrBound ==
    main_query # None =>
        LET sql == Unwrap(main_query).main.sql
        IN  /\ \A i \in Unquoted(sql) : sql[i] \notin ClientLetters
            /\ ~HasBareDollar(sql)

\* The request names a column its target table does not have: as a key of
\* its payload or as the field of a filter of its query string.
NamesUnknownColumn(request) ==
    LET table == require_table(Cache, request.action.qi)
    IN  /\ request.action.tag \in {"RelationRead", "RelationMut"}
        /\ table.ok
        /\ \/ \E k \in PayloadKeys(request) : get_column(table.value, k) = None
           \/ \E i \in 1..Len(request.query_params.filters_root) :
                 get_column(table.value, request.query_params.filters_root[i].field.name) = None

\* C10: when a payload key or a filter field name of a request is not a
\* column of the target table, planning fails with UnknownColumn and no SQL
\* is built for the request.
C10_UnknownColumnRejected ==
    (plan_result # None /\ NamesUnknownColumn(Unwrap(api_request))) =>
        /\ Unwrap(plan_result) = Err("UnknownColumn")
        /\ main_query = None

(***************************************************************************)
(* The executor: concurrent requests in execute_plan over the pool         *)
(***************************************************************************)

NumRequests == 2
PoolSize == 1
MaxClaims == 1

Requests == 1..NumRequests
Connections == 1..PoolSize

\* The role the pool's connections log in as, and the roles of callers: the
\* configured anonymous role, the role of a JWT, and a role claim that names
\* no role of the database.
LoginRole == <<"authenticator">>
AnonRole == <<"web_anon">>
UserRole == <<"alice">>
GhostRole == <<"ghost">>
DbRoles == {LoginRole, AnonRole, UserRole}

\* JWT claim keys: one that makes a valid name of a setting and one that
\* set_config rejects.
GoodClaim == "sub"
BadClaim == "https://example.com/claims"
ClaimLists == UNION {[1..k -> {GoodClaim, BadClaim}] : k \in 0..MaxClaims}

\* The row a mutation request inserts; a second insert of a row fails on
\* the table's key.
RowKeys == {"k1"}

\* The session state of a connection as the database keeps it: whether a
\* transaction block is open, and the role and settings made with SET LOCAL
\* or set_config(.., true) inside it.  Outside a transaction block those
\* commands last for their own statement only.
NewConnection == [log |-> <<>>, in_tx |-> FALSE, local_role |-> None, local_claims |-> {}]

set_local_role(c, role) == IF c.in_tx THEN [c EXCEPT !.local_role = Some(role)] ELSE c

set_config_local(c, key) == IF c.in_tx THEN [c EXCEPT !.local_claims = @ \cup {key}] ELSE c

current_role(c) == IF c.local_role # None THEN Unwrap(c.local_role) ELSE LoginRole

\* A statement of request r as the connection receives it.
Statement(r, kind, sql) == [req |-> r, kind |-> kind, sql |-> sql]

NewRequest(role, claims, tx, insert) ==
    [role |-> role, claims |-> claims, transaction |-> tx, insert |-> insert,
     pc |-> "acquire", conn |-> 0, claim_i |-> 1, failed |-> {}, response |-> None,
     ran |-> None]

InitExec ==
    /\ pool = Connections
    /\ conns = [c \in Connections |-> NewConnection]
    /\ reqs \in [Requests -> {NewRequest(role, claims, tx, ins) :
                    role \in {AnonRole, UserRole, GhostRole}, claims \in ClaimLists,
                    tx \in {"Commit", "Rollback"},
                    ins \in {None} \cup {Some(k) : k \in RowKeys}}]
    /\ db_table = {}
    /\ FragIdle /\ BuildIdle /\ PlanIdle /\ ParseIdle /\ CacheIdle /\ BrokerIdle /\ GqlIdle

\* state.pool.acquire(): the request takes an idle connection.
Acquire(r) ==
    /\ reqs[r].pc = "acquire"
    /\ \E c \in pool :
          /\ pool' = pool \ {c}
          /\ reqs' = [reqs EXCEPT ![r].conn = c, ![r].pc = "set_role"]
    /\ UNCHANGED <<conns, db_table, fragVars, parseVars, cacheVars, brokerVars, gqlVars, buildVars, planVars>>

\* state.pool.acquire() gives up while every connection is taken.
AcquireTimeout(r) ==
    /\ reqs[r].pc = "acquire"
    /\ pool = {}
    /\ reqs' = [reqs EXCEPT ![r].pc = "done", ![r].response = Some(Err("ConnectionPool"))]
    /\ UNCHANGED <<pool, conns, db_table, fragVars, parseVars, cacheVars, brokerVars, gqlVars, buildVars, planVars>>

\* SET LOCAL ROLE <escape_ident(auth.role)>; an error ends the request with
\* Error::Database and drops the connection back into the pool.
SetRole(r) ==
    /\ reqs[r].pc = "set_role"
    /\ LET c == reqs[r].conn
           stmt == Statement(r, "SetLocalRole",
                             <<"SET LOCAL ROLE ">> \o escape_ident(reqs[r].role))
           logged == [conns[c] EXCEPT !.log = Append(@, stmt)]
       IN  IF reqs[r].role \in DbRoles
           THEN /\ conns' = [conns EXCEPT ![c] = set_local_role(logged, reqs[r].role)]
                /\ reqs' = [reqs EXCEPT ![r].pc = IF reqs[r].claims = <<>> THEN "main"
                                                  ELSE "set_claims"]
                /\ pool' = pool
           ELSE /\ conns' = [conns EXCEPT ![c] = logged]
                /\ reqs' = [reqs EXCEPT ![r].pc = "done", ![r].conn = 0,
                                        ![r].failed = @ \cup {"role"},
                                        ![r].response = Some(Err("Database"))]
                /\ pool' = pool \cup {c}
    /\ UNCHANGED <<db_table, fragVars, parseVars, cacheVars, brokerVars, gqlVars, buildVars, planVars>>

\* One turn of the claims loop: SELECT set_config($1, $2, true) for the next
\* claim, its error thrown away by .ok().
SetClaim(r) ==
    /\ reqs[r].pc = "set_claims"
    /\ LET c == reqs[r].conn
           key == reqs[r].claims[reqs[r].claim_i]
           stmt == Statement(r, "SetConfig", <<"SELECT set_config($1, $2, true)", key>>)
           logged == [conns[c] EXCEPT !.log = Append(@, stmt)]
           last == reqs[r].claim_i = Len(reqs[r].claims)
       IN  /\ conns' = [conns EXCEPT ![c] = IF key = BadClaim THEN logged
                                             ELSE set_config_local(logged, key)]
           /\ reqs' = [reqs EXCEPT ![r].claim_i = @ + 1,
                                   ![r].pc = IF last THEN "main" ELSE "set_claims",
                                   ![r].failed = IF key = BadClaim THEN @ \cup {"claim"} ELSE @]
    /\ UNCHANGED <<pool, db_table, fragVars, parseVars, cacheVars, brokerVars, gqlVars, buildVars, planVars>>

\* The main query, then the end of execute_plan: the rows or the mapped
\* error are returned and the connection is dropped back into the pool.
\* No statement opened a transaction block, so an insert is committed as
\* soon as it succeeds.
RunMain(r) ==
    /\ reqs[r].pc = "main"
    /\ LET c == reqs[r].conn
           stmt == Statement(r, "Main", <<"main">>)
           logged == [conns[c] EXCEPT !.log = Append(@, stmt)]
           ran == [role |-> current_role(conns[c]), claims |-> conns[c].local_claims]
           duplicate == reqs[r].insert # None
                            /\ \E row \in db_table : row.key = Unwrap(reqs[r].insert)
       IN  /\ conns' = [conns EXCEPT ![c] = logged]
           /\ pool' = pool \cup {c}
           /\ IF duplicate
              THEN /\ reqs' = [reqs EXCEPT ![r].pc = "done", ![r].conn = 0, ![r].ran = Some(ran),
                                           ![r].failed = @ \cup {"main"},
                                           ![r].response = Some(Err("Database"))]
                   /\ db_table' = db_table
              ELSE /\ reqs' = [reqs EXCEPT ![r].pc = "done", ![r].conn = 0, ![r].ran = Some(ran),
                                           ![r].response = Some(Ok("rows"))]
                   /\ db_table' = IF reqs[r].insert # None /\ ~conns[c].in_tx
                                  THEN db_table \cup {[key |-> Unwrap(reqs[r].insert), by |-> r]}
                                  ELSE db_table
    /\ UNCHANGED <<fragVars, parseVars, cacheVars, brokerVars, gqlVars, buildVars, planVars>>

NextExec ==
    \E r \in Requests : Acquire(r) \/ AcquireTimeout(r) \/ SetRole(r) \/ SetClaim(r) \/ RunMain(r)

SpecExec == InitExec /\ [][NextExec]_vars

\* The statements request r has been sent on connection c, in order.
RECURSIVE StatementsOf(_, _)
StatementsOf(log, r) ==
    IF log = <<>> THEN <<>>
    ELSE (IF Head(log).req = r THEN <<Head(log).kind>> ELSE <<>>) \o StatementsOf(Tail(log), r)

\* Request r's main query is in the log of connection c at position i.
IsMainOf(c, i, r) == conns[c].log[i].kind = "Main" /\ conns[c].log[i].req = r

\* C1: for every request that executes a database plan, the executor begins
\* a transaction on the acquired connection and, inside that transaction,
\* issues SET LOCAL ROLE with the quoted role of the caller before it
\* executes the main query.
C1_RoleSetInsideTransaction ==
    \A r \in DOMAIN reqs : \A c \in DOMAIN conns : \A i \in 1..Len(conns[c].log) :
        IsMainOf(c, i, r) =>
            \E b \in 1..(i - 1) : \E s \in (b + 1)..(i - 1) :
                /\ conns[c].log[b] = Statement(r, "Begin", <<"BEGIN">>)
                /\ conns[c].log[s] = Statement(r, "SetLocalRole",
                                               <<"SET LOCAL ROLE ">> \o escape_ident(reqs[r].role))

\* C2: the main query of a request is executed only if its role switch and
\* every one of its claim settings succeeded.
C2_MainOnlyAfterRoleAndClaims ==
    \A r \in DOMAIN reqs : \A c \in DOMAIN conns : \A i \in 1..Len(conns[c].log) :
        IsMainOf(c, i, r) => reqs[r].failed \cap {"role", "claim"} = {}

\* C3: a mutation request with Prefer: tx=rollback that was answered with
\* success ended its transaction with ROLLBACK, and the table holds no row
\* of it.
C3_RollbackPreferenceLeavesTable ==
    \A r \in DOMAIN reqs :
        ( /\ reqs[r].response # None /\ Unwrap(reqs[r].response).ok
          /\ reqs[r].insert # None
          /\ reqs[r].transaction = "Rollback" ) =>
            /\ \E c \in DOMAIN conns :
                  LET mine == StatementsOf(conns[c].log, r)
                  IN  mine # <<>> /\ mine[Len(mine)] = "Rollback"
            /\ ~\E row \in db_table : row.by = r

\* C4: when a step of a request failed after its connection was acquired
\* (role switch, claim setting or main query), the request returned an
\* Error and the work of the request was rolled back: the table holds no
\* row of it.
C4_FailureRollsBackWithError ==
    \A r \in DOMAIN reqs :
        (reqs[r].pc = "done" /\ reqs[r].failed # {}) =>
            /\ ~Unwrap(reqs[r].response).ok
            /\ ~\E row \in db_table : row.by = r

\* C5: a connection taken from the pool carries no role or claim setting of
\* an earlier request, and the main query of every request runs with exactly
\* the role and the claims of its own caller.
C5_OwnRoleAndClaimsOnly ==
    \A r \in DOMAIN reqs :
        /\ reqs[r].pc = "set_role" =>
               /\ conns[reqs[r].conn].local_role = None
               /\ conns[reqs[r].conn].local_claims = {}
        /\ reqs[r].ran # None =>
               /\ Unwrap(reqs[r].ran).role = reqs[r].role
               /\ Unwrap(reqs[r].ran).claims
                      = {reqs[r].claims[i] : i \in 1..Len(reqs[r].claims)}

(***************************************************************************)
(* Mutations with a body                                                   *)
(***************************************************************************)

\* The plan build_db_query was given, once it has been built.
BuiltMutation(tag) ==
    /\ main_query # None
    /\ db_plan # None
    /\ Unwrap(db_plan).tag = "MutateRead"
    /\ Unwrap(db_plan).mutate.tag = tag
    /\ Unwrap(db_plan).mutate.body # None

\* C11: the statement built for an Insert plan that carries a body is an
\* INSERT INTO the plan's target table, fed by the single body parameter $1.
C11_InsertWithBodyIsInsert ==
    BuiltMutation("Insert") =>
        LET plan == Unwrap(db_plan).mutate
            q == Unwrap(main_query).main
            head == <<"INSERT INTO ">> \o from_qi(plan.target)
        IN  /\ Len(q.sql) >= Len(head)
            /\ SubSeq(q.sql, 1, Len(head)) = head
            /\ q.params = <<Unwrap(plan.body)>>

RECURSIVE filter_operands(_, _)
\* The parameters of the WHERE clauses of a plan, in order.
filter_operands(where_clauses, i) ==
    IF i > Len(where_clauses) THEN <<>>
    ELSE build_logic_tree(where_clauses[i]).params
             \o filter_operands(where_clauses, i + 1)

\* C12: the statement built for an Update plan with a body and at least one
\* column binds the body once: its params are the body followed by the
\* filter operands, whatever the number of columns.
C12_UpdateBindsBodyOnce ==
    (BuiltMutation("Update") /\ Len(Unwrap(db_plan).mutate.columns) >= 1) =>
        LET plan == Unwrap(db_plan).mutate
            q == Unwrap(main_query).main
        IN  q.params = <<Unwrap(plan.body)>> \o filter_operands(plan.where_clauses, 1)

(***************************************************************************)
(* postrust-core: the request parser.  Paths, query strings and header     *)
(* values are sequences of characters.                                     *)
(***************************************************************************)

\* The characters of the model's paths, keys and values in byte order.
ByteOrder ==
    <<"%", "+", "-", ".", "/", "0", "1", "2", "3", "4", "5", "6", "7", "8", "9", "=",
      "_", "a", "c", "e", "f", "i", "l", "m", "o", "p", "q", "r", "s", "t", "x">>

byte(c) == CHOOSE i \in 1..Len(ByteOrder) : ByteOrder[i] = c

RECURSIVE str_cmp(_, _)
\* Ord for str: byte-wise lexicographic; -1, 0 or 1.
str_cmp(a, b) ==
    IF a = <<>> THEN (IF b = <<>> THEN 0 ELSE -1)
    ELSE IF b = <<>> THEN 1
    ELSE IF byte(Head(a)) < byte(Head(b)) THEN -1
    ELSE IF byte(Head(a)) > byte(Head(b)) THEN 1
    ELSE str_cmp(Tail(a), Tail(b))

starts_with(s, prefix) ==
    Len(s) >= Len(prefix) /\ SubSeq(s, 1, Len(prefix)) = prefix

\* str::strip_prefix
strip_prefix(s, prefix) ==
    IF starts_with(s, prefix) THEN Some(SubSeq(s, Len(prefix) + 1, Len(s))) ELSE None

RECURSIVE trim_start_matches(_, _)
trim_start_matches(s, c) ==
    IF s # <<>> /\ Head(s) = c THEN trim_start_matches(Tail(s), c) ELSE s

RECURSIVE take_until(_, _)
\* `s.split(c).next()`: the characters before the first c.
take_until(s, c) ==
    IF s = <<>> \/ Head(s) = c THEN <<>> ELSE <<Head(s)>> \o take_until(Tail(s), c)

\* parse_resource
parse_resource(path) ==
    LET p == trim_start_matches(path, "/")
        func_name == strip_prefix(p, <<"r", "p", "c", "/">>)
        name == take_until(p, "/")
    IN  IF p = <<>> THEN Ok([tag |-> "Schema"])
        ELSE IF func_name # None
             THEN IF Unwrap(func_name) = <<>> THEN Err("InvalidPath")
                  ELSE Ok([tag |-> "Routine", name |-> Unwrap(func_name)])
        ELSE IF name = <<>> THEN Err("InvalidPath")
        ELSE Ok([tag |-> "Relation", name |-> name])

\* parse_schema: the Accept-Profile header is looked at first, then the
\* Content-Profile header, whatever the method.
parse_schema(req, default_schema, schemas) ==
    IF req.accept_profile # None
    THEN IF Unwrap(req.accept_profile) \notin schemas THEN Err("UnacceptableSchema")
         ELSE Ok(<<Unwrap(req.accept_profile), TRUE>>)
    ELSE IF req.content_profile # None
    THEN IF Unwrap(req.content_profile) \notin schemas THEN Err("UnacceptableSchema")
         ELSE Ok(<<Unwrap(req.content_profile), TRUE>>)
    ELSE Ok(<<default_schema, FALSE>>)

QualifiedIdentifier_new(schema, name) == [schema |-> schema, name |-> name]

\* PUT on a relation parsed as an update.
parse_action_put_as_update(method, resource, schema) ==
    IF method = "PUT" /\ resource.tag = "Relation"
    THEN Ok([tag |-> "RelationMut", qi |-> QualifiedIdentifier_new(schema, resource.name),
             mutation |-> "Update"])
    ELSE Err("UnsupportedMethod")

\* parse_action; Action::Db(DbAction::X {..}) is the record tagged X.
parse_action(method, resource, schema) ==
    CASE method = "GET" /\ resource.tag = "Schema" ->
            Ok([tag |-> "SchemaRead", schema |-> schema, headers_only |-> FALSE])
      [] method = "HEAD" /\ resource.tag = "Schema" ->
            Ok([tag |-> "SchemaRead", schema |-> schema, headers_only |-> TRUE])
      [] method = "OPTIONS" /\ resource.tag = "Schema" ->
            Ok([tag |-> "SchemaInfo"])
      [] method = "GET" /\ resource.tag = "Relation" ->
            Ok([tag |-> "RelationRead", qi |-> QualifiedIdentifier_new(schema, resource.name),
                headers_only |-> FALSE])
      [] method = "HEAD" /\ resource.tag = "Relation" ->
            Ok([tag |-> "RelationRead", qi |-> QualifiedIdentifier_new(schema, resource.name),
                headers_only |-> TRUE])
      [] method = "POST" /\ resource.tag = "Relation" ->
            Ok([tag |-> "RelationMut", qi |-> QualifiedIdentifier_new(schema, resource.name),
                mutation |-> "Create"])
      [] method = "PATCH" /\ resource.tag = "Relation" ->
            Ok([tag |-> "RelationMut", qi |-> QualifiedIdentifier_new(schema, resource.name),
                mutation |-> "Update"])
      [] method = "PUT" /\ resource.tag = "Relation" ->
            Ok([tag |-> "RelationMut", qi |-> QualifiedIdentifier_new(schema, resource.name),
                mutation |-> "SingleUpsert"])
      [] method = "DELETE" /\ resource.tag = "Relation" ->
            Ok([tag |-> "RelationMut", qi |-> QualifiedIdentifier_new(schema, resource.name),
                mutation |-> "Delete"])
      [] method = "OPTIONS" /\ resource.tag = "Relation" ->
            Ok([tag |-> "RelationInfo", qi |-> QualifiedIdentifier_new(schema, resource.name)])
      [] method = "GET" /\ resource.tag = "Routine" ->
            Ok([tag |-> "Routine", qi |-> QualifiedIdentifier_new(schema, resource.name),
                invoke_method |-> [tag |-> "InvRead", headers_only |-> FALSE]])
      [] method = "HEAD" /\ resource.tag = "Routine" ->
            Ok([tag |-> "Routine", qi |-> QualifiedIdentifier_new(schema, resource.name),
                invoke_method |-> [tag |-> "InvRead", headers_only |-> TRUE]])
      [] method = "POST" /\ resource.tag = "Routine" ->
            Ok([tag |-> "Routine", qi |-> QualifiedIdentifier_new(schema, resource.name),
                invoke_method |-> [tag |-> "Inv"]])
      [] method = "OPTIONS" /\ resource.tag = "Routine" ->
            Ok([tag |-> "RoutineInfo", qi |-> QualifiedIdentifier_new(schema, resource.name),
                invoke_method |-> [tag |-> "Inv"]])
      [] OTHER -> Err("UnsupportedMethod")

RECURSIVE split(_, _)
\* str::split(c): the pieces between the occurrences of c (at least one).
split(s, c) ==
    LET first == take_until(s, c)
    IN  IF Len(first) = Len(s) THEN <<first>>
        ELSE <<first>> \o split(SubSeq(s, Len(first) + 2, Len(s)), c)

\* `pair.splitn(2, '=')`: the key and the rest, "" when there is no '='.
split_pair(pair) ==
    LET key == take_until(pair, "=")
    IN  <<key, IF Len(key) = Len(pair) THEN <<>> ELSE SubSeq(pair, Len(key) + 2, Len(pair))>>

RECURSIVE insert_by_key(_, _)
\* Insertion behind every pair whose key is not greater: a stable sort step.
insert_by_key(sorted, pair) ==
    IF sorted = <<>> THEN <<pair>>
    ELSE IF str_cmp(Head(sorted)[1], pair[1]) <= 0
         THEN <<Head(sorted)>> \o insert_by_key(Tail(sorted), pair)
         ELSE <<pair>> \o sorted

RECURSIVE sort_by_key(_)
\* `pairs.sort_by_key(|(k, _)| *k)`: stable, by key only.
sort_by_key(pairs) ==
    IF pairs = <<>> THEN <<>>
    ELSE insert_by_key(sort_by_key(SubSeq(pairs, 1, Len(pairs) - 1)), pairs[Len(pairs)])

RECURSIVE join_pairs(_)
\* `pairs.map(|(k, v)| format!("{}={}", k, v)).join("&")`
join_pairs(pairs) ==
    IF pairs = <<>> THEN <<>>
    ELSE Head(pairs)[1] \o <<"=">> \o Head(pairs)[2]
             \o (IF Len(pairs) > 1 THEN <<"&">> \o join_pairs(Tail(pairs)) ELSE <<>>)

RECURSIVE percent_decode_str(_)
\* percent_decode_str: %3d is the digit d; a "%" that no two hex digits
\* follow stays.  (The model's values hold no other escapes.)
percent_decode_str(s) ==
    IF s = <<>> THEN <<>>
    ELSE IF Head(s) = "%" /\ Len(s) >= 3 /\ s[2] = "3" /\ IsDigit(s[3])
         THEN <<s[3]>> \o percent_decode_str(SubSeq(s, 4, Len(s)))
         ELSE <<Head(s)>> \o percent_decode_str(Tail(s))

\* str::parse::<i64>: an optional sign and at least one digit.
parse_i64(s) ==
    LET digits == IF s # <<>> /\ Head(s) \in {"+", "-"} THEN Tail(s) ELSE s
    IN  IF digits = <<>> \/ \E i \in 1..Len(digits) : ~IsDigit(digits[i]) THEN None
        ELSE IF Head(s) = "-" THEN Some(0 - parse_digits(digits, 0))
        ELSE Some(parse_digits(digits, 0))

Range_default == [offset |-> 0, limit |-> None]

\* Range::from_bounds
from_bounds(start, end) ==
    [offset |-> start, limit |-> IF end = None THEN None ELSE Some(Unwrap(end) - start + 1)]

\* parse_operation, for the operator `eq.`; the other operators of the
\* grammar do not occur in the model's query strings.
parse_operation(value) ==
    LET rest == strip_prefix(value, <<"e", "q", ".">>)
    IN  IF rest # None
        THEN Ok([tag |-> "Quant", op |-> "Equal", quantifier |-> None, value |-> Unwrap(rest)])
        ELSE Err("InvalidQueryParam")

\* parse_filter_value
parse_filter_value(value) ==
    LET rest == strip_prefix(value, <<"n", "o", "t", ".">>)
        operation == parse_operation(IF rest # None THEN Unwrap(rest) ELSE value)
    IN  IF ~operation.ok THEN operation
        ELSE Ok([negated |-> rest # None, operation |-> operation.value])

\* parse_filter_key
parse_filter_key(key) ==
    LET parts == split(key, ".")
    IN  <<SubSeq(parts, 1, Len(parts) - 1), parts[Len(parts)]>>

\* parse_filter_param
parse_filter_param(key, value) ==
    LET op_expr == parse_filter_value(value)
    IN  IF ~op_expr.ok THEN op_expr
        ELSE Ok(<<parse_filter_key(key)[1],
                  [field |-> [name |-> parse_filter_key(key)[2]], op_expr |-> op_expr.value]>>)

QueryParams_default ==
    [canonical |-> <<>>, params |-> <<>>, ranges |-> None, order |-> <<>>, logic |-> <<>>,
     select |-> <<>>, filters |-> <<>>, filters_root |-> <<>>, on_conflict |-> None]

\* `params.ranges.entry(String::new()).or_default()`
root_range(params) == IF params.ranges = None THEN Range_default ELSE Unwrap(params.ranges)

\* One turn of the loop of parse_query_params over the sorted pairs, for the
\* keys limit and offset, filters and RPC parameters.
parse_pair(params, key, value) ==
    LET decoded_value == percent_decode_str(value)
        number == parse_i64(decoded_value)
        filter == parse_filter_param(key, decoded_value)
    IN  CASE key = <<"l", "i", "m", "i", "t">> ->
                IF number = None THEN Err("InvalidQueryParam")
                ELSE Ok([params EXCEPT !.ranges =
                            Some([root_range(params) EXCEPT !.limit = number])])
          [] key = <<"o", "f", "f", "s", "e", "t">> ->
                IF number = None THEN Err("InvalidQueryParam")
                ELSE Ok([params EXCEPT !.ranges =
                            Some([root_range(params) EXCEPT !.offset = Unwrap(number)])])
          [] key \notin {<<"l", "i", "m", "i", "t">>, <<"o", "f", "f", "s", "e", "t">>}
                 /\ ~starts_with(key, <<"_">>) ->
                IF ~filter.ok THEN filter
                ELSE IF filter.value[1] = <<>>
                     THEN Ok([params EXCEPT !.filters_root = Append(@, filter.value[2])])
                     ELSE Ok([params EXCEPT !.filters = Append(@, filter.value)])
          [] OTHER -> Ok([params EXCEPT !.params = Append(@, <<key, decoded_value>>)])

RECURSIVE parse_pairs(_, _, _)
parse_pairs(params, pairs, i) ==
    IF i > Len(pairs) THEN Ok(params)
    ELSE LET next == parse_pair(params, pairs[i][1], pairs[i][2])
         IN  IF ~next.ok THEN next ELSE parse_pairs(next.value, pairs, i + 1)

\* parse_query_params
parse_query_params(query) ==
    IF query = <<>> THEN Ok(QueryParams_default)
    ELSE LET raw_pairs == split(query, "&")
             pairs == sort_by_key([i \in 1..Len(raw_pairs) |-> split_pair(raw_pairs[i])])
         IN  parse_pairs([QueryParams_default EXCEPT !.canonical = join_pairs(pairs)],
                         pairs, 1)

\* parse_range: only a Range header that starts with "0-" is read.
parse_range(req) ==
    IF req.range = None THEN Range_default
    ELSE LET range_value == strip_prefix(Unwrap(req.range), <<"0", "-">>)
         IN  IF range_value = None THEN Range_default
             ELSE IF Unwrap(range_value) = <<>> THEN [offset |-> 0, limit |-> None]
             ELSE IF parse_i64(Unwrap(range_value)) # None
                  THEN from_bounds(0, parse_i64(Unwrap(range_value)))
             ELSE Range_default

Preferences_default == [representation |-> "None", resolution |-> None, transaction |-> "Commit"]

\* parse_request, for requests without Prefer, Accept and Content-Type
\* headers.
parse_request(req, default_schema, schemas) ==
    LET resource == parse_resource(req.path)
        schema == parse_schema(req, default_schema, schemas)
        action == parse_action(req.method, resource.value, schema.value[1])
        query_params == parse_query_params(req.query)
    IN  IF ~resource.ok THEN resource
        ELSE IF ~schema.ok THEN schema
        ELSE IF ~action.ok THEN action
        ELSE IF ~query_params.ok THEN query_params
        ELSE Ok([action |-> action.value,
                 schema |-> schema.value[1],
                 payload |-> None,
                 query_params |-> query_params.value,
                 preferences |-> Preferences_default,
                 top_level_range |-> parse_range(req),
                 negotiated_by_profile |-> schema.value[2],
                 method |-> req.method,
                 path |-> req.path])

(***************************************************************************)
(* Requests through parse_request, create_action_plan and build_query      *)
(***************************************************************************)

MaxPairs == 2

\* AppConfig.db_schemas: the exposed schemas.
DbSchemas == << <<"p">>, <<"q">>, <<"s">> >>

\* AppConfig::default_schema
default_schema(db_schemas) ==
    IF db_schemas = <<>> THEN <<"p", "u", "b", "l", "i", "c">> ELSE db_schemas[1]

\* AppState::schemas, as the set `schemas.contains` tests.
schemas(db_schemas) == {db_schemas[i] : i \in 1..Len(db_schemas)}

Methods == {"GET", "HEAD", "POST", "PATCH", "PUT", "DELETE", "OPTIONS", "TRACE"}

\* "/", "/t", "/t/1", "/rpc/f" and "/rpc/"
Paths ==
    { <<"/">>, <<"/", "t">>, <<"/", "t", "/", "1">>, <<"/", "r", "p", "c", "/", "f">>,
      <<"/", "r", "p", "c", "/">> }

\* No profile header, an exposed schema, or a schema that is not exposed.
AcceptProfiles == {None, Some(<<"q">>), Some(<<"x">>)}
ContentProfiles == {None, Some(<<"s">>), Some(<<"x">>)}

\* limit=5, limit=%37, limit=x, offset=2, offset=0 and a=eq.5
QueryPairs ==
    { <<"l", "i", "m", "i", "t", "=", "5">>,
      <<"l", "i", "m", "i", "t", "=", "%", "3", "7">>,
      <<"l", "i", "m", "i", "t", "=", "x">>,
      <<"o", "f", "f", "s", "e", "t", "=", "2">>,
      <<"o", "f", "f", "s", "e", "t", "=", "0">>,
      <<"a", "=", "e", "q", ".", "5">> }

RECURSIVE join_query(_)
\* The query string made of the pairs, "&" between them.
join_query(pairs) ==
    IF pairs = <<>> THEN <<>>
    ELSE Head(pairs) \o (IF Len(pairs) > 1 THEN <<"&">> \o join_query(Tail(pairs)) ELSE <<>>)

PairLists == UNION {[1..k -> QueryPairs] : k \in 0..MaxPairs}

\* Requests of every method and path with profile headers, and reads of
\* /t with a query string and possibly a Range header.
HttpRequests ==
    { [method |-> m, path |-> p, query |-> <<>>, accept_profile |-> ap,
       content_profile |-> cp, range |-> None] :
        m \in Methods, p \in Paths, ap \in AcceptProfiles, cp \in ContentProfiles }
    \cup
    { [method |-> "GET", path |-> <<"/", "t">>, query |-> join_query(ps),
       accept_profile |-> None, content_profile |-> None, range |-> rg] :
        ps \in PairLists, rg \in {None, Some(<<"0", "-", "9">>)} }

InitParse ==
    /\ http_request \in {Some(r) : r \in HttpRequests}
    /\ parse_result = None
    /\ api_request = None /\ plan_result = None
    /\ db_plan = None /\ main_query = None
    /\ auth_role = Some(<<"r">>)
    /\ FragIdle /\ ExecIdle /\ CacheIdle /\ BrokerIdle /\ GqlIdle

\* process_request: parse_request on the incoming request; the ApiRequest
\* goes on to create_action_plan.
ParseRequest ==
    /\ http_request # None /\ parse_result = None
    /\ LET result == parse_request(Unwrap(http_request), default_schema(DbSchemas),
                                   schemas(DbSchemas))
       IN  /\ parse_result' = Some(result)
           /\ api_request' = IF result.ok THEN Some(result.value) ELSE None
    /\ UNCHANGED <<fragVars, buildVars, execVars, cacheVars, brokerVars, gqlVars, http_request, plan_result>>

NextParse == ParseRequest \/ PlanRead \/ BuildRead

SpecParse == InitParse /\ [][NextParse]_vars

\* The request has been parsed into an ApiRequest.
Parsed == parse_result # None /\ Unwrap(parse_result).ok

\* C13: when the query string of a relation read gives limit=n and/or
\* offset=m, the root read plan's range is {offset: m, limit: n}, and the
\* SELECT built from it carries LIMIT n, and OFFSET m when m > 0.
C13_LimitOffsetReachPlanAndSql ==
    (Parsed /\ plan_result # None /\ Unwrap(plan_result).ok
        /\ Unwrap(api_request).query_params.ranges # None) =>
        LET range == Unwrap(Unwrap(api_request).query_params.ranges)
            plan == Unwrap(plan_result).value.read_tree.root
            limit == <<" LIMIT ">> \o i64_to_string(Unwrap(range.limit))
            offset == <<" OFFSET ">> \o i64_to_string(range.offset)
        IN  /\ plan.range = range
            /\ main_query # None =>
                  LET sql == Unwrap(main_query).main.sql
                  IN  /\ range.limit # None =>
                             \E i \in 1..Len(sql) : SubSeq(sql, i, i + Len(limit) - 1) = limit
                      /\ range.offset > 0 =>
                             \E i \in 1..Len(sql) : SubSeq(sql, i, i + Len(offset) - 1) = offset

\* The method/resource table: the action tag, mutation and headers_only
\* flag of every supported pair; None for the other pairs.
TabledAction(method, kind) ==
    CASE method = "GET" /\ kind = "Schema" -> Some([tag |-> "SchemaRead", headers_only |-> FALSE])
      [] method = "GET" /\ kind = "Relation" ->
            Some([tag |-> "RelationRead", headers_only |-> FALSE])
      [] method = "GET" /\ kind = "Routine" ->
            Some([tag |-> "Routine", invoke |-> "InvRead", headers_only |-> FALSE])
      [] method = "HEAD" /\ kind = "Schema" -> Some([tag |-> "SchemaRead", headers_only |-> TRUE])
      [] method = "HEAD" /\ kind = "Relation" ->
            Some([tag |-> "RelationRead", headers_only |-> TRUE])
      [] method = "HEAD" /\ kind = "Routine" ->
            Some([tag |-> "Routine", invoke |-> "InvRead", headers_only |-> TRUE])
      [] method = "POST" /\ kind = "Relation" -> Some([tag |-> "RelationMut", mutation |-> "Create"])
      [] method = "POST" /\ kind = "Routine" -> Some([tag |-> "Routine", invoke |-> "Inv"])
      [] method = "PATCH" /\ kind = "Relation" -> Some([tag |-> "RelationMut", mutation |-> "Update"])
      [] method = "PUT" /\ kind = "Relation" ->
            Some([tag |-> "RelationMut", mutation |-> "SingleUpsert"])
      [] method = "DELETE" /\ kind = "Relation" -> Some([tag |-> "RelationMut", mutation |-> "Delete"])
      [] method = "OPTIONS" /\ kind = "Schema" -> Some([tag |-> "SchemaInfo"])
      [] method = "OPTIONS" /\ kind = "Relation" -> Some([tag |-> "RelationInfo"])
      [] method = "OPTIONS" /\ kind = "Routine" -> Some([tag |-> "RoutineInfo"])
      [] OTHER -> None

\* The action has the tabled tag, flag and mutation, and names the resource
\* in the given schema.
IsTabledAction(action, tabled, resource, schema) ==
    /\ action.tag = tabled.tag
    /\ "headers_only" \in DOMAIN tabled =>
           IF tabled.tag = "Routine"
           THEN action.invoke_method = [tag |-> "InvRead", headers_only |-> tabled.headers_only]
           ELSE action.headers_only = tabled.headers_only
    /\ (tabled.tag = "Routine" /\ tabled.invoke = "Inv") => action.invoke_method = [tag |-> "Inv"]
    /\ "mutation" \in DOMAIN tabled => action.mutation = tabled.mutation
    /\ resource.tag # "Schema" => action.qi = [schema |-> schema, name |-> resource.name]

\* C14: for every method and resource kind, a pair of the method/resource
\* table is parsed into exactly its tabled action (headers_only exactly for
\* HEAD), and every other pair fails with UnsupportedMethod.
C14_MethodResourceTable ==
    parse_result # None =>
        LET req == Unwrap(http_request)
            resource == parse_resource(req.path)
            schema == parse_schema(req, default_schema(DbSchemas), schemas(DbSchemas))
            tabled == TabledAction(req.method, resource.value.tag)
        IN  (resource.ok /\ schema.ok /\ parse_query_params(req.query).ok) =>
                IF tabled = None
                THEN Unwrap(parse_result) = Err("UnsupportedMethod")
                ELSE /\ Unwrap(parse_result).ok
                     /\ IsTabledAction(Unwrap(parse_result).value.action, Unwrap(tabled),
                                       resource.value, schema.value[1])

\* PUT /t has been parsed into a single upsert of q.t.
C14_Witness ==
    /\ Parsed
    /\ Unwrap(http_request).method = "PUT"
    /\ Unwrap(http_request).accept_profile = Some(<<"q">>)
    /\ Unwrap(parse_result).value.action =
           [tag |-> "RelationMut", qi |-> [schema |-> <<"q">>, name |-> <<"t">>],
            mutation |-> "SingleUpsert"]

\* The orders in which the pieces of a query string can be written.
Reorderings(pieces) ==
    {[i \in 1..Len(pieces) |-> pieces[o[i]]] :
        o \in {f \in [1..Len(pieces) -> 1..Len(pieces)] :
                  \A i, j \in 1..Len(pieces) : i # j => f[i] # f[j]}}

\* C15: two query strings whose key=value pairs are reorderings of each
\* other (keys may repeat with different values) parse to the same
\* canonical string.
C15_CanonicalIgnoresPairOrder ==
    (Parsed /\ Unwrap(http_request).query # <<>>) =>
        \A pieces \in Reorderings(split(Unwrap(http_request).query, "&")) :
            LET other == parse_query_params(join_query(pieces))
            IN  other.ok =>
                    other.value.canonical = Unwrap(parse_result).value.query_params.canonical

ReadMethods == {"GET", "HEAD"}

WriteMethods == {"POST", "PATCH", "PUT", "DELETE"}

\* C16: the request schema is the Accept-Profile header's for a read that
\* sends one, the Content-Profile header's for a write that sends one (also
\* when both headers are sent), and the configured default schema otherwise.
C16_SchemaByMethodProfile ==
    Parsed =>
        LET req == Unwrap(http_request)
        IN  Unwrap(parse_result).value.schema =
                IF req.method \in ReadMethods /\ req.accept_profile # None
                THEN Unwrap(req.accept_profile)
                ELSE IF req.method \in WriteMethods /\ req.content_profile # None
                     THEN Unwrap(req.content_profile)
                     ELSE default_schema(DbSchemas)

(***************************************************************************)
(* Embedding and function calls                                            *)
(***************************************************************************)

\* The relationships of the table whose foreign table is called to_name.
Candidates(cache, qi, to_name) ==
    LET rels == get_relationships(cache, qi, qi.schema)
    IN  IF rels = None THEN {}
        ELSE {i \in 1..Len(Unwrap(rels)) : Unwrap(rels)[i].foreign_table.name = to_name}

\* The request reads an existing table and embeds, without a hint, a
\* relation to which two or more relationships of the table lead.
EmbedsAmbiguously(request) ==
    /\ request.action.tag = "RelationRead"
    /\ require_table(Cache, request.action.qi).ok
    /\ \E i \in 1..Len(request.query_params.select) :
          LET item == request.query_params.select[i]
          IN  /\ item.tag # "Field"
              /\ item.hint = None
              /\ Cardinality(Candidates(Cache, request.action.qi, item.relation)) >= 2

\* C17: a select that embeds a relation without a hint, when two or more
\* relationships of the table lead to it, fails planning with an ambiguity
\* error; no candidate is picked.
C17_AmbiguousEmbeddingFails ==
    (plan_result # None /\ api_request # None /\ EmbedsAmbiguously(Unwrap(api_request))) =>
        /\ ~Unwrap(plan_result).ok
        /\ Unwrap(plan_result).error = "EmbeddingAmbiguous"

\* The request calls, with GET or HEAD, a function whose resolved routine is
\* Volatile.
ReadsVolatileRoutine(request) ==
    /\ request.action.tag = "Routine"
    /\ request.action.invoke_method.tag = "InvRead"
    /\ LET routines == get_routines(Cache, request.action.qi)
       IN  /\ routines # None /\ Unwrap(routines) # <<>>
           /\ Unwrap(routines)[1].volatility = "Volatile"

\* C18: a GET or HEAD call of a Volatile routine is rejected by the
\* planner, and no call SQL is built for it.
C18_VolatileRoutineNotReadable ==
    (plan_result # None /\ api_request # None /\ ReadsVolatileRoutine(Unwrap(api_request))) =>
        /\ ~Unwrap(plan_result).ok
        /\ main_query = None

(***************************************************************************)
(* postrust-server: requests and schema reloads on AppState.schema_cache,  *)
(* a tokio RwLock<SchemaCache>.  A SchemaCache is stood for by the version *)
(* of its tables and the version of its routines and relationships; the    *)
(* cache read from the database by the k-th load has version k, the one    *)
(* loaded at startup version 0.                                            *)
(***************************************************************************)

NumHandlers == 2
NumReloads == 2

Handlers == 1..NumHandlers
Reloads == 1..NumReloads

\* SchemaCache::load: a complete cache of one version.
SchemaCache_load(version) == [tables |-> version, routines |-> version]

\* RwLock::read is granted at once.
can_read_always(lock) == TRUE

\* RwLock::read is granted when no write guard is out and no writer is
\* queued (the lock is fair: writers are served in the order they queued,
\* and readers that come after a queued writer wait behind it).
can_read(lock) == lock.writer = None /\ lock.waiting = <<>>

\* RwLock::write is granted when no guard is out.
can_write(lock) == lock.writer = None /\ lock.readers = {}

InitCache ==
    /\ schema_cache = Some(SchemaCache_load(0))
    /\ cache_lock = Some([readers |-> {}, writer |-> None, waiting |-> <<>>])
    /\ handlers = [h \in Handlers |-> [pc |-> "parse_request", seen |-> <<>>]]
    /\ reloads = [k \in Reloads |-> [pc |-> "load", new_cache |-> None]]
    /\ FragIdle /\ BuildIdle /\ PlanIdle /\ ExecIdle /\ ParseIdle /\ BrokerIdle /\ GqlIdle

\* The lock with handler h's read guard dropped.
drop_read_guard(lock, h) == [lock EXCEPT !.readers = @ \ {h}]

\* process_request: `let schema_cache = state.schema_cache().await`
ReadGuard(h) ==
    /\ handlers[h].pc = "parse_request"
    /\ can_read(Unwrap(cache_lock))
    /\ cache_lock' = Some([Unwrap(cache_lock) EXCEPT !.readers = @ \cup {h}])
    /\ handlers' = [handlers EXCEPT ![h].pc = "create_action_plan"]
    /\ UNCHANGED <<schema_cache, reloads>>
    /\ UNCHANGED <<fragVars, buildVars, planVars, execVars, parseVars, brokerVars, gqlVars>>

\* create_action_plan: the planner looks the table up in the cache.
RequireTable(h) ==
    /\ handlers[h].pc = "create_action_plan"
    /\ handlers[h].seen = <<>>
    /\ handlers' = [handlers EXCEPT ![h].seen = <<Unwrap(schema_cache).tables>>]
    /\ UNCHANGED <<schema_cache, cache_lock, reloads>>
    /\ UNCHANGED <<fragVars, buildVars, planVars, execVars, parseVars, brokerVars, gqlVars>>

\* create_action_plan: the planner looks relationships and routines up, and
\* the plan goes on to execute_plan.
GetRoutines(h) ==
    /\ handlers[h].pc = "create_action_plan"
    /\ Len(handlers[h].seen) = 1
    /\ handlers' = [handlers EXCEPT ![h].seen = Append(@, Unwrap(schema_cache).routines),
                                    ![h].pc = "execute_plan"]
    /\ UNCHANGED <<schema_cache, cache_lock, reloads>>
    /\ UNCHANGED <<fragVars, buildVars, planVars, execVars, parseVars, brokerVars, gqlVars>>

\* `create_action_plan(..)?` or `execute_plan(..).await?` returns an error:
\* the function's locals, the read guard among them, are dropped.
ReturnError(h) ==
    /\ handlers[h].pc \in {"create_action_plan", "execute_plan"}
    /\ handlers' = [handlers EXCEPT ![h].pc = "error"]
    /\ cache_lock' = Some(drop_read_guard(Unwrap(cache_lock), h))
    /\ UNCHANGED <<schema_cache, reloads>>
    /\ UNCHANGED <<fragVars, buildVars, planVars, execVars, parseVars, brokerVars, gqlVars>>

\* execute_plan has run the database query.
ExecutePlan(h) ==
    /\ handlers[h].pc = "execute_plan"
    /\ handlers' = [handlers EXCEPT ![h].pc = "format_response"]
    /\ UNCHANGED <<schema_cache, cache_lock, reloads>>
    /\ UNCHANGED <<fragVars, buildVars, planVars, execVars, parseVars, brokerVars, gqlVars>>

\* format_response and build_response; process_request returns and its
\* locals are dropped.
FormatResponse(h) ==
    /\ handlers[h].pc = "format_response"
    /\ handlers' = [handlers EXCEPT ![h].pc = "done"]
    /\ cache_lock' = Some(drop_read_guard(Unwrap(cache_lock), h))
    /\ UNCHANGED <<schema_cache, reloads>>
    /\ UNCHANGED <<fragVars, buildVars, planVars, execVars, parseVars, brokerVars, gqlVars>>

\* The number of loads that have read the database so far.
LoadsDone == Cardinality({k \in DOMAIN reloads : reloads[k].new_cache # None})

\* reload_schema: `SchemaCache::load(..).await?` gives the new cache.
Load(k) ==
    /\ reloads[k].pc = "load"
    /\ reloads' = [reloads EXCEPT ![k] = [pc |-> "write",
                                          new_cache |-> Some(SchemaCache_load(LoadsDone + 1))]]
    /\ UNCHANGED <<schema_cache, cache_lock, handlers>>
    /\ UNCHANGED <<fragVars, buildVars, planVars, execVars, parseVars, brokerVars, gqlVars>>

\* reload_schema: the load fails and the error is returned.
LoadError(k) ==
    /\ reloads[k].pc = "load"
    /\ reloads' = [reloads EXCEPT ![k].pc = "error"]
    /\ UNCHANGED <<schema_cache, cache_lock, handlers>>
    /\ UNCHANGED <<fragVars, buildVars, planVars, execVars, parseVars, brokerVars, gqlVars>>

\* reload_schema: `self.schema_cache.write()` queues for the write guard.
WriteWait(k) ==
    /\ reloads[k].pc = "write"
    /\ reloads' = [reloads EXCEPT ![k].pc = "write_await"]
    /\ cache_lock' = Some([Unwrap(cache_lock) EXCEPT !.waiting = Append(@, k)])
    /\ UNCHANGED <<schema_cache, handlers>>
    /\ UNCHANGED <<fragVars, buildVars, planVars, execVars, parseVars, brokerVars, gqlVars>>

\* reload_schema: `.await` of the write guard is granted.
WriteGuard(k) ==
    /\ reloads[k].pc = "write_await"
    /\ Head(Unwrap(cache_lock).waiting) = k
    /\ can_write(Unwrap(cache_lock))
    /\ reloads' = [reloads EXCEPT ![k].pc = "store"]
    /\ cache_lock' = Some([Unwrap(cache_lock) EXCEPT !.waiting = Tail(@), !.writer = Some(k)])
    /\ UNCHANGED <<schema_cache, handlers>>
    /\ UNCHANGED <<fragVars, buildVars, planVars, execVars, parseVars, brokerVars, gqlVars>>

\* reload_schema: `*guard = new_cache`, the first part of the value moved.
StoreTables(k) ==
    /\ reloads[k].pc = "store"
    /\ schema_cache' = Some([Unwrap(schema_cache) EXCEPT
                                !.tables = Unwrap(reloads[k].new_cache).tables])
    /\ reloads' = [reloads EXCEPT ![k].pc = "store_rest"]
    /\ UNCHANGED <<cache_lock, handlers>>
    /\ UNCHANGED <<fragVars, buildVars, planVars, execVars, parseVars, brokerVars, gqlVars>>

\* reload_schema: the rest of the value moved; the write guard is dropped
\* on return.
StoreRoutines(k) ==
    /\ reloads[k].pc = "store_rest"
    /\ schema_cache' = Some([Unwrap(schema_cache) EXCEPT
                                !.routines = Unwrap(reloads[k].new_cache).routines])
    /\ reloads' = [reloads EXCEPT ![k].pc = "done"]
    /\ cache_lock' = Some([Unwrap(cache_lock) EXCEPT !.writer = None])
    /\ UNCHANGED handlers
    /\ UNCHANGED <<fragVars, buildVars, planVars, execVars, parseVars, brokerVars, gqlVars>>

NextCache ==
    \/ \E h \in Handlers :
          \/ ReadGuard(h) \/ RequireTable(h) \/ GetRoutines(h)
          \/ ReturnError(h) \/ ExecutePlan(h) \/ FormatResponse(h)
    \/ \E k \in Reloads :
          \/ Load(k) \/ LoadError(k) \/ WriteWait(k)
          \/ WriteGuard(k) \/ StoreTables(k) \/ StoreRoutines(k)

SpecCache == InitCache /\ [][NextCache]_vars

\* Handler h holds a read guard.
HoldsReadGuard(h) == h \in Unwrap(cache_lock).readers

\* C19: a schema-cache reload is atomic to readers.  What a request reads
\* while planning belongs to one complete cache (the one before a reload
\* or the fully loaded new one, never parts of both), and the cache does
\* not change while the request plans.
C19_ReloadAtomicToReaders ==
    handlers # <<>> =>
        \A h \in Handlers :
            /\ \A i, j \in 1..Len(handlers[h].seen) : handlers[h].seen[i] = handlers[h].seen[j]
            /\ handlers[h].pc = "create_action_plan" =>
                   /\ Unwrap(schema_cache).tables = Unwrap(schema_cache).routines
                   /\ \A i \in 1..Len(handlers[h].seen) :
                          handlers[h].seen[i] = Unwrap(schema_cache).tables

\* One request has planned against the cache of before the reload and is
\* still in flight, another has planned against the reloaded cache.
C19_Witness ==
    /\ handlers # <<>>
    /\ \E h, g \in Handlers :
          /\ handlers[h].seen = <<0, 0>>
          /\ handlers[g].seen = <<1, 1>>
          /\ handlers[g].pc = "execute_plan"

\* C20: a request holds the read guard only while it plans: it has dropped
\* it before it runs its database query and formats the response.
C20_GuardOnlyWhilePlanning ==
    handlers # <<>> =>
        \A h \in Handlers :
            handlers[h].pc \in {"execute_plan", "format_response"} => ~HoldsReadGuard(h)

\* Every reload_schema call has returned, and at least one stored a cache.
ReloadsFinished ==
    /\ reloads # <<>>
    /\ \A k \in DOMAIN reloads : reloads[k].pc \in {"done", "error"}
    /\ LoadsDone > 0

\* C27: once concurrent reloads have all finished, the installed cache is
\* the one that was read from the database last.
C27_LastLoadedCacheInstalled ==
    ReloadsFinished => Unwrap(schema_cache) = SchemaCache_load(LoadsDone)

(***************************************************************************)
(* postrust-graphql: the subscription broker.  NotifyBroker holds the      *)
(* `running` flag and the map of broadcast senders, each behind its own    *)
(* RwLock; every lock is held for one read or one write, which is one step *)
(* here.  A broadcast channel is the sequence of values sent to it, of     *)
(* which it retains the last channel_capacity; a notification's payload is *)
(* its position in the order PostgreSQL emitted it.                        *)
(***************************************************************************)

NumCallers == 2
MaxCalls == 3
MaxNotifications == 2
MaxSubscribers == 1
channel_capacity == 1

Callers == 1..NumCallers

\* The channel names callers pass and PostgreSQL notifies on.
ChannelNames == {"c"}

\* The argument of start: the channels to listen on.
ListenChannels == {<<"c">>}

Range(seq) == {seq[i] : i \in DOMAIN seq}

Idle(n) == [op |-> "idle", pc |-> "idle", arg |-> <<>>, result |-> None, n |-> n]

\* NotifyBroker::new, with callers that have not called yet, and PostgreSQL
\* before any NOTIFY.
InitBroker ==
    /\ running = FALSE
    /\ channels = <<>>
    /\ tasks = <<>>
    /\ calls = [c \in Callers |-> Idle(0)]
    /\ subscribers = <<>>
    /\ emitted = <<>>
    /\ stopped = FALSE
    /\ FragIdle /\ BuildIdle /\ PlanIdle /\ ExecIdle /\ ParseIdle /\ CacheIdle /\ GqlIdle

RECURSIVE CallsMade(_)
\* The number of calls the callers 1..c have begun.
CallsMade(c) == IF c = 0 THEN 0 ELSE calls[c].n + CallsMade(c - 1)

\* Caller c may begin a call.
MayCall(c) == calls[c].op = "idle" /\ CallsMade(NumCallers) < MaxCalls

\* The call of caller c returns result.
Returned(c, result) == [Idle(calls[c].n) EXCEPT !.result = Some(result)]

\* channels with a new broadcast channel for each name that has none.
ensure_channels(chans, names) ==
    [ch \in DOMAIN chans \cup names |-> IF ch \in DOMAIN chans THEN chans[ch] ELSE <<>>]

\* A task spawned with a PgListener that just ran LISTEN on names: it is
\* sent what PostgreSQL emits on them from now on.
ListenerTask(names, by) ==
    [listening |-> names, cursor |-> Len(emitted) + 1, pc |-> "check", cur |-> None,
     by |-> by]

\* start: `let running = self.running.read().await; if *running { return
\* Err(AlreadyRunning) }`, the guard dropped at the end of the block.
StartCheck(c) ==
    /\ MayCall(c)
    /\ \E names \in ListenChannels :
          calls' = [calls EXCEPT ![c] =
                       IF running
                       THEN [Returned(c, Err("AlreadyRunning")) EXCEPT !.n = @ + 1]
                       ELSE [op |-> "start", pc |-> "mark", arg |-> names,
                             result |-> None, n |-> calls[c].n + 1]]
    /\ UNCHANGED <<running, channels, tasks, subscribers, emitted, stopped>>
    /\ UNCHANGED <<fragVars, buildVars, planVars, execVars, parseVars, cacheVars, gqlVars>>

\* start: `*self.running.write().await = true`
StartMark(c) ==
    /\ calls[c].op = "start" /\ calls[c].pc = "mark"
    /\ running' = TRUE
    /\ stopped' = FALSE
    /\ calls' = [calls EXCEPT ![c].pc = "create"]
    /\ UNCHANGED <<channels, tasks, subscribers, emitted>>
    /\ UNCHANGED <<fragVars, buildVars, planVars, execVars, parseVars, cacheVars, gqlVars>>

\* start: a broadcast channel for each listen channel that has none.
StartCreate(c) ==
    /\ calls[c].op = "start" /\ calls[c].pc = "create"
    /\ channels' = ensure_channels(channels, Range(calls[c].arg))
    /\ calls' = [calls EXCEPT ![c].pc = "connect"]
    /\ UNCHANGED <<running, tasks, subscribers, emitted, stopped>>
    /\ UNCHANGED <<fragVars, buildVars, planVars, execVars, parseVars, cacheVars, gqlVars>>

\* start: PgListener::connect_with and every listen succeed; the listener
\* task is spawned and start returns Ok.
StartListen(c) ==
    /\ calls[c].op = "start" /\ calls[c].pc = "connect"
    /\ tasks' = Append(tasks, ListenerTask(Range(calls[c].arg), "start"))
    /\ calls' = [calls EXCEPT ![c] = Returned(c, Ok("unit"))]
    /\ UNCHANGED <<running, channels, subscribers, emitted, stopped>>
    /\ UNCHANGED <<fragVars, buildVars, planVars, execVars, parseVars, cacheVars, gqlVars>>

\* start: PgListener::connect_with or a listen fails; `?` returns
\* Err(BrokerError::Database).
StartListenError(c) ==
    /\ calls[c].op = "start" /\ calls[c].pc = "connect"
    /\ calls' = [calls EXCEPT ![c] = Returned(c, Err("Database"))]
    /\ UNCHANGED <<running, channels, tasks, subscribers, emitted, stopped>>
    /\ UNCHANGED <<fragVars, buildVars, planVars, execVars, parseVars, cacheVars, gqlVars>>

\* stop: `*self.running.write().await = false`
Stop(c) ==
    /\ MayCall(c)
    /\ running' = FALSE
    /\ stopped' = TRUE
    /\ calls' = [calls EXCEPT ![c] = [Returned(c, Ok("unit")) EXCEPT !.n = @ + 1]]
    /\ UNCHANGED <<channels, tasks, subscribers, emitted>>
    /\ UNCHANGED <<fragVars, buildVars, planVars, execVars, parseVars, cacheVars, gqlVars>>

\* listen_channel: its own PgListener connects and listens, the broadcast
\* channel is created if missing, a listener task is spawned.
ListenChannel(c) ==
    /\ MayCall(c)
    /\ \E ch \in ChannelNames :
          /\ channels' = ensure_channels(channels, {ch})
          /\ tasks' = Append(tasks, ListenerTask({ch}, "listen_channel"))
    /\ calls' = [calls EXCEPT ![c] = [Returned(c, Ok("unit")) EXCEPT !.n = @ + 1]]
    /\ UNCHANGED <<running, subscribers, emitted, stopped>>
    /\ UNCHANGED <<fragVars, buildVars, planVars, execVars, parseVars, cacheVars, gqlVars>>

\* listen_channel: connecting or listening fails.
ListenChannelError(c) ==
    /\ MayCall(c)
    /\ calls' = [calls EXCEPT ![c] = [Returned(c, Err("Database")) EXCEPT !.n = @ + 1]]
    /\ UNCHANGED <<running, channels, tasks, subscribers, emitted, stopped>>
    /\ UNCHANGED <<fragVars, buildVars, planVars, execVars, parseVars, cacheVars, gqlVars>>

\* subscribe: a receiver of the channel's sender, which sees the values
\* sent from now on, or Err(ChannelNotFound).
Subscribe(c) ==
    /\ MayCall(c)
    /\ Len(subscribers) < MaxSubscribers
    /\ \E ch \in ChannelNames :
          IF ch \in DOMAIN channels
          THEN /\ subscribers' = Append(subscribers,
                      [channel |-> ch, from |-> Len(channels[ch]) + 1,
                       pos |-> Len(channels[ch]) + 1, received |-> <<>>])
               /\ calls' = [calls EXCEPT ![c] =
                               [Returned(c, Ok("stream")) EXCEPT !.n = @ + 1]]
          ELSE /\ subscribers' = subscribers
               /\ calls' = [calls EXCEPT ![c] =
                               [Returned(c, Err("ChannelNotFound")) EXCEPT !.n = @ + 1]]
    /\ UNCHANGED <<running, channels, tasks, emitted, stopped>>
    /\ UNCHANGED <<fragVars, buildVars, planVars, execVars, parseVars, cacheVars, gqlVars>>

\* A listener task at the top of its loop: `if !*running.read().await
\* { break }`
TaskCheck(t) ==
    /\ tasks[t].pc = "check"
    /\ tasks' = [tasks EXCEPT ![t].pc = IF running THEN "recv" ELSE "exited"]
    /\ UNCHANGED <<running, channels, calls, subscribers, emitted, stopped>>
    /\ UNCHANGED <<fragVars, buildVars, planVars, execVars, parseVars, cacheVars, gqlVars>>

\* The positions in emitted of what task t's connection has yet to hand it.
Pending(t) ==
    {i \in tasks[t].cursor..Len(emitted) : emitted[i].channel \in tasks[t].listening}

Min(S) == CHOOSE x \in S : \A y \in S : x <= y

\* `listener.try_recv().await` gives Ok(Some(notification)).
TaskRecv(t) ==
    /\ tasks[t].pc = "recv"
    /\ Pending(t) # {}
    /\ LET i == Min(Pending(t))
       IN  tasks' = [tasks EXCEPT ![t].pc = "send", ![t].cursor = i + 1,
                                  ![t].cur = Some([channel |-> emitted[i].channel,
                                                   payload |-> emitted[i].payload])]
    /\ UNCHANGED <<running, channels, calls, subscribers, emitted, stopped>>
    /\ UNCHANGED <<fragVars, buildVars, planVars, execVars, parseVars, cacheVars, gqlVars>>

\* `listener.try_recv().await` gives Ok(None) or Err: the task sleeps and
\* loops.
TaskRecvNone(t) ==
    /\ tasks[t].pc = "recv"
    /\ tasks' = [tasks EXCEPT ![t].pc = "check"]
    /\ UNCHANGED <<running, channels, calls, subscribers, emitted, stopped>>
    /\ UNCHANGED <<fragVars, buildVars, planVars, execVars, parseVars, cacheVars, gqlVars>>

\* `if let Some(sender) = channels_read.get(&channel) { sender.send(..) }`
TaskSend(t) ==
    /\ tasks[t].pc = "send"
    /\ LET n == Unwrap(tasks[t].cur)
       IN  channels' = IF n.channel \in DOMAIN channels
                       THEN [channels EXCEPT ![n.channel] = Append(@, n)]
                       ELSE channels
    /\ tasks' = [tasks EXCEPT ![t].pc = "check", ![t].cur = None]
    /\ UNCHANGED <<running, calls, subscribers, emitted, stopped>>
    /\ UNCHANGED <<fragVars, buildVars, planVars, execVars, parseVars, cacheVars, gqlVars>>

\* The position of the oldest value a broadcast channel still retains.
oldest_retained(log) ==
    IF Len(log) > channel_capacity THEN Len(log) - channel_capacity + 1 ELSE 1

\* A subscriber's stream is polled: BroadcastStream gives the next value,
\* or Err(Lagged) with the cursor moved to the oldest retained value, which
\* `filter_map(|result| ready(result.ok()))` drops.
Poll(s) ==
    /\ subscribers[s].pos <= Len(channels[subscribers[s].channel])
    /\ LET log == channels[subscribers[s].channel]
           sub == subscribers[s]
       IN  subscribers' = [subscribers EXCEPT ![s] =
              IF sub.pos < oldest_retained(log)
              THEN [sub EXCEPT !.pos = oldest_retained(log)]
              ELSE [sub EXCEPT !.pos = @ + 1, !.received = Append(@, log[sub.pos])]]
    /\ UNCHANGED <<running, channels, tasks, calls, emitted, stopped>>
    /\ UNCHANGED <<fragVars, buildVars, planVars, execVars, parseVars, cacheVars, gqlVars>>

\* PostgreSQL emits a notification; whether the broker was stopped at that
\* moment is recorded with it.
Notify ==
    /\ Len(emitted) < MaxNotifications
    /\ \E ch \in ChannelNames :
          emitted' = Append(emitted, [channel |-> ch, payload |-> Len(emitted) + 1,
                                      stopped |-> stopped])
    /\ UNCHANGED <<running, channels, tasks, calls, subscribers, stopped>>
    /\ UNCHANGED <<fragVars, buildVars, planVars, execVars, parseVars, cacheVars, gqlVars>>

NextBroker ==
    \/ \E c \in Callers :
          \/ StartCheck(c) \/ StartMark(c) \/ StartCreate(c) \/ StartListen(c)
          \/ StartListenError(c) \/ Stop(c) \/ ListenChannel(c)
          \/ ListenChannelError(c) \/ Subscribe(c)
    \/ \E t \in DOMAIN tasks :
          \/ TaskCheck(t) \/ TaskRecv(t) \/ TaskRecvNone(t) \/ TaskSend(t)
    \/ \E s \in DOMAIN subscribers : Poll(s)
    \/ Notify

SpecBroker == InitBroker /\ [][NextBroker]_vars

\* The listener tasks that have not left their loop and listen on ch.
LiveListeners(ch) ==
    {t \in DOMAIN tasks : tasks[t].pc # "exited" /\ ch \in tasks[t].listening}

\* C21: the broker is single-writer per channel.  At every moment a channel
\* has at most one live listener task forwarding its notifications,
\* whatever start, listen_channel, stop and restart calls were made, and no
\* subscriber is handed the same notification twice.
C21_SingleWriterPerChannel ==
    /\ \A ch \in ChannelNames : Cardinality(LiveListeners(ch)) <= 1
    /\ \A s \in DOMAIN subscribers :
          \A i, j \in DOMAIN subscribers[s].received :
              i # j => subscribers[s].received[i] # subscribers[s].received[j]

\* C22: a subscriber's stream yields every notification broadcast on its
\* channel since it subscribed, however far behind it polls: what it has
\* yielded is exactly what the channel was sent between its subscription
\* and its cursor.
C22_EverySubscriberGetsEveryNotification ==
    \A s \in DOMAIN subscribers :
        LET sub == subscribers[s]
        IN  sub.received = SubSeq(channels[sub.channel], sub.from, sub.pos - 1)

\* C23: a subscriber receives the notifications of its channel in the order
\* PostgreSQL emitted them: one emitted later never comes before one
\* emitted earlier.
C23_EmissionOrderKept ==
    \A s \in DOMAIN subscribers :
        \A i, j \in DOMAIN subscribers[s].received :
            i < j => subscribers[s].received[i].payload <= subscribers[s].received[j].payload

\* C28: of the start calls that overlap, at most one is past the running
\* check and on its way to create channels and spawn a listener.
C28_OneStartProceeds ==
    Cardinality({c \in DOMAIN calls : calls[c].op = "start"}) <= 1

\* C29: when start returns an error because connecting or listening
\* failed, it leaves the broker not running.
C29_FailedStartLeavesNotRunning ==
    [][\A c \in Callers : StartListenError(c) => ~running']_vars

\* C30: no notification that PostgreSQL emitted while the broker was stopped
\* is broadcast to a channel.
C30_NothingBroadcastAfterStop ==
    \A ch \in DOMAIN channels :
        \A i \in DOMAIN channels[ch] : ~emitted[channels[ch][i].payload].stopped

(***************************************************************************)
(* postrust-core: the Prefer header.  Header text is a sequence of         *)
(* symbols: the separators ",", "=", " " and "\"", decimal digits, and     *)
(* whole words.                                                            *)
(***************************************************************************)

MaxPrefs == 2

RECURSIVE trim_end_matches(_, _)
\* str::trim_end_matches(c)
trim_end_matches(s, c) ==
    IF s # <<>> /\ s[Len(s)] = c THEN trim_end_matches(SubSeq(s, 1, Len(s) - 1), c) ELSE s

\* str::trim_matches(c)
trim_matches(s, c) == trim_end_matches(trim_start_matches(s, c), c)

\* str::trim
trim(s) == trim_matches(s, " ")

\* str::split_once('='): None, or the text before and after the first '='.
split_once(s) ==
    LET key == take_until(s, "=")
    IN  IF Len(key) = Len(s) THEN None
        ELSE Some(<<key, SubSeq(s, Len(key) + 2, Len(s))>>)

\* Preferences::default()
Preferences_all ==
    [resolution |-> None, representation |-> "None", count |-> None,
     transaction |-> "Commit", missing |-> "ApplyDefaults", handling |-> "Strict",
     timezone |-> None, max_affected |-> None, invalid |-> <<>>]

\* parse_preference
parse_preference(prefs, pref0) ==
    LET pref == trim(pref0)
        kv == split_once(pref)
    IN  IF kv # None
        THEN LET key == trim(Unwrap(kv)[1])
                 value == trim_matches(trim(Unwrap(kv)[2]), "\"")
             IN  CASE key = <<"resolution">> ->
                        [prefs EXCEPT !.resolution =
                            CASE value = <<"merge-duplicates">> -> Some("MergeDuplicates")
                              [] value = <<"ignore-duplicates">> -> Some("IgnoreDuplicates")
                              [] OTHER -> None]
                   [] key = <<"return">> ->
                        [prefs EXCEPT !.representation =
                            CASE value = <<"representation">> -> "Full"
                              [] value = <<"headers-only">> -> "HeadersOnly"
                              [] value = <<"minimal">> -> "None"
                              [] OTHER -> "None"]
                   [] key = <<"count">> ->
                        [prefs EXCEPT !.count =
                            CASE value = <<"exact">> -> Some("Exact")
                              [] value = <<"planned">> -> Some("Planned")
                              [] value = <<"estimated">> -> Some("Estimated")
                              [] OTHER -> None]
                   [] key = <<"tx">> ->
                        [prefs EXCEPT !.transaction =
                            CASE value = <<"commit">> -> "Commit"
                              [] value = <<"rollback">> -> "Rollback"
                              [] OTHER -> "Commit"]
                   [] key = <<"missing">> ->
                        [prefs EXCEPT !.missing =
                            CASE value = <<"default">> -> "ApplyDefaults"
                              [] value = <<"null">> -> "ApplyNulls"
                              [] OTHER -> "ApplyDefaults"]
                   [] key = <<"handling">> ->
                        [prefs EXCEPT !.handling =
                            CASE value = <<"strict">> -> "Strict"
                              [] value = <<"lenient">> -> "Lenient"
                              [] OTHER -> "Strict"]
                   [] key = <<"timezone">> -> [prefs EXCEPT !.timezone = Some(value)]
                   [] key = <<"max-affected">> ->
                        IF parse_i64(value) # None
                        THEN [prefs EXCEPT !.max_affected = parse_i64(value)]
                        ELSE prefs
                   [] OTHER -> [prefs EXCEPT !.invalid = Append(@, pref)]
        \* No '=' in the token: none of the standalone match arms, which all
        \* hold an '=', can match.
        ELSE [prefs EXCEPT !.invalid = Append(@, pref)]

RECURSIVE parse_each_preference(_, _, _)
\* `for pref in prefer.split(',').map(|s| s.trim()) { parse_preference(..) }`
parse_each_preference(prefs, tokens, i) ==
    IF i > Len(tokens) THEN prefs
    ELSE parse_each_preference(parse_preference(prefs, trim(tokens[i])), tokens, i + 1)

\* parse_preferences, on the value of the Prefer header if there is one.
parse_preferences(prefer) ==
    IF prefer = None THEN Ok(Preferences_all)
    ELSE Ok(parse_each_preference(Preferences_all, split(Unwrap(prefer), ","), 1))

\* The tokens clients send: preferences of the table, known keys with other
\* values, unknown keys, a bare word, an empty token, a quoted value and a
\* token with blanks around it.
PreferTokens ==
    { <<"return", "=", "representation">>, <<"return", "=", "bogus">>,
      <<"count", "=", "exact">>, <<"count", "=", "bogus">>,
      <<"tx", "=", "rollback">>, <<"resolution", "=", "merge-duplicates">>,
      <<"missing", "=", "null">>, <<"handling", "=", "lenient">>,
      <<"timezone", "=", "UTC">>,
      <<"max-affected", "=", "5">>, <<"max-affected", "=", "bogus">>,
      <<"params", "=", "single-object">>, <<"foo", "=", "bar">>, <<"foo">>, <<>>,
      <<"return", "=", "\"", "minimal", "\"">>, <<" ", "tx", "=", "commit", " ">> }

RECURSIVE join_tokens(_)
\* The header value listing the tokens, separated by commas.
join_tokens(tokens) ==
    IF Len(tokens) = 1 THEN tokens[1]
    ELSE tokens[1] \o <<",">> \o join_tokens(Tail(tokens))

PreferHeaders ==
    {None} \cup
    {Some(join_tokens(tokens)) :
        tokens \in UNION {[1..k -> PreferTokens] : k \in 1..MaxPrefs}}

InitPrefer ==
    /\ http_request \in {Some([headers |-> [prefer |-> h]]) : h \in PreferHeaders}
    /\ parse_result = None
    /\ api_request = None /\ plan_result = None
    /\ FragIdle /\ BuildIdle /\ ExecIdle /\ CacheIdle /\ BrokerIdle /\ GqlIdle

\* parse_request: `let preferences = parse_preferences(req.headers())?`
ParsePreferences ==
    /\ http_request # None /\ parse_result = None
    /\ parse_result' = Some(parse_preferences(Unwrap(http_request).headers.prefer))
    /\ UNCHANGED <<http_request, fragVars, buildVars, planVars, execVars, cacheVars,
                   brokerVars, gqlVars>>

NextPrefer == ParsePreferences

SpecPrefer == InitPrefer /\ [][NextPrefer]_vars

\* The preference table: a known key together with one of its listed
\* values (any name for timezone, an integer for max-affected).
Recognized(token) ==
    LET kv == split_once(trim(token))
        key == trim(Unwrap(kv)[1])
        value == trim_matches(trim(Unwrap(kv)[2]), "\"")
    IN  /\ kv # None
        /\ \/ key = <<"return">> /\ value \in {<<"representation">>, <<"headers-only">>, <<"minimal">>}
           \/ key = <<"count">> /\ value \in {<<"exact">>, <<"planned">>, <<"estimated">>}
           \/ key = <<"resolution">> /\ value \in {<<"merge-duplicates">>, <<"ignore-duplicates">>}
           \/ key = <<"tx">> /\ value \in {<<"commit">>, <<"rollback">>}
           \/ key = <<"missing">> /\ value \in {<<"default">>, <<"null">>}
           \/ key = <<"handling">> /\ value \in {<<"strict">>, <<"lenient">>}
           \/ key = <<"timezone">> /\ value # <<>>
           \/ key = <<"max-affected">> /\ parse_i64(value) # None

\* The Prefer header has been parsed.
PreferParsed ==
    /\ http_request # None /\ parse_result # None
    /\ "headers" \in DOMAIN Unwrap(http_request)
    /\ "prefer" \in DOMAIN Unwrap(http_request).headers
    /\ Unwrap(http_request).headers.prefer # None

\* C24: after a Prefer header is parsed, every comma-separated token that
\* is not a recognized preference is in preferences.invalid, and no
\* recognized preference is in it.
C24_UnrecognizedTokensAreInvalid ==
    PreferParsed =>
        LET tokens == split(Unwrap(Unwrap(http_request).headers.prefer), ",")
            invalid == Unwrap(parse_result).value.invalid
        IN  \A i \in DOMAIN tokens :
                Recognized(tokens[i]) <=> ~(\E j \in DOMAIN invalid : invalid[j] = trim(tokens[i]))

(***************************************************************************)
(* Conditions of PATCH and DELETE requests                                 *)
(***************************************************************************)

\* The WHERE clauses the conditions of a request's query string stand for:
\* its root filters, then its and=/or= trees.
supplied_conditions(request, table) ==
    LET roots == request.query_params.filters_root
        logic == request.query_params.logic
    IN  [i \in 1..Len(roots) |->
            [tag |-> "Stmt",
             filter |-> from_filter(roots[i], type_resolver(table, roots[i].field.name))]]
        \o [k \in 1..Len(logic) |-> from_logic_tree(logic[k][2], table)]

\* A statement has been built for a PATCH or DELETE request.
BuiltConditionalMutation ==
    /\ api_request # None /\ plan_result # None /\ main_query # None /\ db_plan # None
    /\ Unwrap(api_request).action.tag = "RelationMut"
    /\ Unwrap(api_request).action.mutation \in {"Update", "Delete"}
    /\ Unwrap(db_plan).tag = "MutateRead"

\* C25: for a PATCH or DELETE request that was not rejected, every condition
\* of the query string (root filters and and=/or= trees) is among the WHERE
\* clauses of the plan the statement was built from, and its operands are
\* bound in the statement.
C25_NoConditionDropped ==
    BuiltConditionalMutation =>
        LET request == Unwrap(api_request)
            table == require_table(Cache, request.action.qi).value
            wanted == supplied_conditions(request, table)
            where == Unwrap(db_plan).mutate.where_clauses
        IN  /\ \A i \in DOMAIN wanted : \E j \in DOMAIN where : where[j] = wanted[i]
            /\ \A p \in Range(filter_operands(wanted, 1)) :
                   p \in Range(Unwrap(main_query).main.params)

(***************************************************************************)
(* Authentication of GraphQL and REST requests.  A JWT is stood for by the *)
(* key it was signed with, whether it has expired and the role it claims;  *)
(* an Authorization header is its scheme followed by the token.            *)
(***************************************************************************)

RoleAnon == <<"a", "n", "o", "n">>
RoleWebAnon == <<"w", "e", "b">>
RoleUser == <<"u">>

\* JwtConfig: the secret and the anonymous role, either of which may be
\* left unset.
JwtConfigs ==
    {[secret |-> s, anon_role |-> a] : s \in {None, Some("k")},
                                      a \in {None, Some(RoleWebAnon)}}

Jwt(key, expired, role) == [tag |-> "Jwt", key |-> key, expired |-> expired, role |-> role]

\* The text `Bearer `, `bearer ` or `Basic ` at the start of a header.
Scheme(text) == [tag |-> "Scheme", text |-> text]

Tokens ==
    {Jwt(k, e, r) : k \in {"k", "x"}, e \in BOOLEAN, r \in {None, Some(RoleUser)}}
    \cup {[tag |-> "Garbage"]}

\* No header, `Bearer <token>`, `bearer <token>`, `Basic <token>`, or a
\* token without a scheme.
AuthHeaders ==
    {None}
    \cup {Some(<<Scheme("Bearer "), t>>) : t \in Tokens}
    \cup {Some(<<Scheme("bearer "), Jwt("k", FALSE, Some(RoleUser))>>),
          Some(<<Scheme("Basic "), Jwt("k", FALSE, Some(RoleUser))>>),
          Some(<<Jwt("k", FALSE, Some(RoleUser))>>)}

\* extract_bearer_token
extract_bearer_token(header) ==
    IF strip_prefix(header, <<Scheme("Bearer ")>>) # None
    THEN Ok(Unwrap(strip_prefix(header, <<Scheme("Bearer ")>>)))
    ELSE IF strip_prefix(header, <<Scheme("bearer ")>>) # None
    THEN Ok(Unwrap(strip_prefix(header, <<Scheme("bearer ")>>)))
    ELSE Err("InvalidHeaderFormat")

\* validate_token
validate_token(token, config) ==
    IF config.secret = None THEN Err("InvalidToken")
    ELSE IF Len(token) # 1 \/ token[1].tag # "Jwt" THEN Err("InvalidToken")
    ELSE IF token[1].key # Unwrap(config.secret) THEN Err("InvalidSignature")
    ELSE IF token[1].expired THEN Err("Expired")
    ELSE IF token[1].role # None THEN Ok([role |-> Unwrap(token[1].role)])
    ELSE IF config.anon_role # None THEN Ok([role |-> Unwrap(config.anon_role)])
    ELSE Err("MissingRole")

\* authenticate
authenticate(auth_header, config) ==
    IF auth_header = None
    THEN IF config.anon_role # None THEN Ok([role |-> Unwrap(config.anon_role)])
         ELSE Err("MissingHeader")
    ELSE LET token == extract_bearer_token(Unwrap(auth_header))
         IN  IF token.ok THEN validate_token(token.value, config) ELSE token

InitGraphql ==
    /\ gql \in {Some([endpoint |-> e, auth_header |-> h, jwt_config |-> c, pc |-> "handler",
                      auth_result |-> None, response |-> None, statements |-> <<>>]) :
                   e \in {"graphql", "rest"}, h \in AuthHeaders, c \in JwtConfigs}
    /\ FragIdle /\ BuildIdle /\ PlanIdle /\ ExecIdle /\ ParseIdle /\ CacheIdle /\ BrokerIdle

\* handle_graphql up to `schema.execute(request)`: on an authentication
\* error the request goes on as the anonymous role, "anon" if none is set.
HandleGraphql ==
    /\ gql # None
    /\ Unwrap(gql).endpoint = "graphql" /\ Unwrap(gql).pc = "handler"
    /\ LET g == Unwrap(gql)
           auth == authenticate(g.auth_header, g.jwt_config)
           auth_result ==
               IF auth.ok THEN auth.value
               ELSE [role |-> IF g.jwt_config.anon_role # None
                              THEN Unwrap(g.jwt_config.anon_role) ELSE RoleAnon]
       IN  gql' = Some([g EXCEPT !.auth_result = Some(auth_result), !.pc = "resolve"])
    /\ UNCHANGED <<fragVars, buildVars, planVars, execVars, parseVars, cacheVars, brokerVars>>

\* A query resolver calls execute_query with the context's role:
\* `SET LOCAL ROLE <role>`, then the query.
ExecuteQuery ==
    /\ gql # None
    /\ Unwrap(gql).endpoint = "graphql" /\ Unwrap(gql).pc = "resolve"
    /\ LET g == Unwrap(gql)
       IN  gql' = Some([g EXCEPT
                  !.statements = << <<"SET LOCAL ROLE ">> \o escape_ident(Unwrap(g.auth_result).role),
                                    <<"SELECT row_to_json(t) FROM (SELECT * FROM public.t) t">> >>,
                  !.response = Some("data"),
                  !.pc = "done"])
    /\ UNCHANGED <<fragVars, buildVars, planVars, execVars, parseVars, cacheVars, brokerVars>>

\* process_request: `authenticate(..).map_err(|e| Error::InvalidJwt(..))?`,
\* after which the request is parsed, planned and executed as the role.
ProcessRequest ==
    /\ gql # None
    /\ Unwrap(gql).endpoint = "rest" /\ Unwrap(gql).pc = "handler"
    /\ LET g == Unwrap(gql)
           auth == authenticate(g.auth_header, g.jwt_config)
       IN  gql' = Some(IF auth.ok
                       THEN [g EXCEPT !.auth_result = Some(auth.value), !.pc = "parse_request"]
                       ELSE [g EXCEPT !.response = Some("InvalidJwt"), !.pc = "done"])
    /\ UNCHANGED <<fragVars, buildVars, planVars, execVars, parseVars, cacheVars, brokerVars>>

NextGraphql == HandleGraphql \/ ExecuteQuery \/ ProcessRequest

SpecGraphql == InitGraphql /\ [][NextGraphql]_vars

\* The request carries an Authorization header that fails validation.
PresentsBadCredentials ==
    /\ gql # None
    /\ Unwrap(gql).auth_header # None
    /\ ~authenticate(Unwrap(gql).auth_header, Unwrap(gql).jwt_config).ok

\* C26: a request whose Authorization header is present but fails validation
\* is rejected on the GraphQL path as on the REST path: it is given no role
\* and no SQL is executed for it.
C26_BadCredentialsRejected ==
    PresentsBadCredentials =>
        /\ Unwrap(gql).auth_result = None
        /\ Unwrap(gql).statements = <<>>

====
